---- MODULE Spec2Model ----
(***************************************************************************)
(* Model of the export-compliance service (vedu111/importExport):          *)
(* the India/USA router module (upload-rules-pdf, check-export-compliance, *)
(* find-by-description) with its helpers.  JavaScript strings are TLA+     *)
(* strings; JavaScript objects are sequences of <<key, value>> pairs kept  *)
(* in the order Object.keys enumerates them.                               *)
(***************************************************************************)
EXTENDS Integers, Sequences, FiniteSets, TLC

VARIABLES
    embeddingsDatabase,  \* the in-memory store: chunks, hsCodesData, itemToHsMap
    fileEmbeddings,      \* contents of embeddings-database.json, or absent
    fileItemToHs,        \* contents of USA-item-to-hs-mapping.json, or absent
    uploads,             \* temporary PDF files of upload requests present in uploads/
    ingest,              \* per upload request: position and local variables
    started,             \* number of PDF uploads accepted so far
    response,            \* response of the latest check-export-compliance request
    twin,                \* the same request answered under the other oracle outcome
    request,             \* the latest request handed to a handler or helper
    result,              \* value returned by the latest helper call
    pdfText,             \* text handed to the chunker
    textChunks,          \* chunks produced by the chunker
    shipment             \* locals of the check-shipment-compliance request under way

vars ==
    <<embeddingsDatabase, fileEmbeddings, fileItemToHs, uploads, ingest, started,
      response, twin, request, result, pdfText, textChunks, shipment>>

-----------------------------------------------------------------------------
(* Bounds of the model *)

MaxEntries ==
    2

MaxKeys ==
    2

MaxTextLen ==
    7

MaxSize ==
    3

MaxLines ==
    2

MaxChunks ==
    6

MaxUploads ==
    2

(* The chunk size the upload handler passes to the chunker, scaled down    *)
(* from 1000 so that short documents split into several chunks.            *)
chunkSize ==
    24

-----------------------------------------------------------------------------
(* JavaScript values and string primitives *)

undefined ==
    "<undefined>"

null ==
    "<null>"

Truthy(v) ==
    v # undefined /\ v # null /\ v # ""

Min(a, b) ==
    IF a < b THEN a ELSE b

Ch(s, i) ==
    SubSeq(s, i, i)

UpperLetters ==
    "ABCDEFGHIJKLMNOPQRSTUVWXYZ"

LowerLetters ==
    "abcdefghijklmnopqrstuvwxyz"

LowerOf ==
    [c \in {Ch(UpperLetters, i) : i \in 1..26} |->
        Ch(LowerLetters, CHOOSE i \in 1..26 : Ch(UpperLetters, i) = c)]

toLowerChar(c) ==
    IF c \in DOMAIN LowerOf THEN LowerOf[c] ELSE c

RECURSIVE toLowerCase(_)
toLowerCase(s) ==
    IF s = "" THEN ""
    ELSE toLowerChar(Ch(s, 1)) \o toLowerCase(SubSeq(s, 2, Len(s)))

IsSpace(c) ==
    c = " " \/ c = "\n"

RECURSIVE trimStart(_)
trimStart(s) ==
    IF s # "" /\ IsSpace(Ch(s, 1)) THEN trimStart(SubSeq(s, 2, Len(s))) ELSE s

RECURSIVE trimEnd(_)
trimEnd(s) ==
    IF s # "" /\ IsSpace(Ch(s, Len(s))) THEN trimEnd(SubSeq(s, 1, Len(s) - 1)) ELSE s

trim(s) ==
    trimEnd(trimStart(s))

startsWithAt(s, p, i) ==
    i + Len(p) - 1 <= Len(s) /\ SubSeq(s, i, i + Len(p) - 1) = p

startsWith(s, p) ==
    startsWithAt(s, p, 1)

includes(s, p) ==
    \E i \in 1..(Len(s) + 1) : startsWithAt(s, p, i)

substring(s, from, to) ==
    SubSeq(s, from + 1, Min(to, Len(s)))

Digits ==
    [c \in {"0", "1", "2", "3", "4", "5", "6", "7", "8", "9"} |->
        (CHOOSE i \in 1..10 : Ch("0123456789", i) = c) - 1]

IsDigit(c) ==
    c \in DOMAIN Digits

DigitVal(c) ==
    Digits[c]

RECURSIVE NumVal(_)
NumVal(s) ==
    IF s = "" THEN 0
    ELSE 10 * NumVal(SubSeq(s, 1, Len(s) - 1)) + DigitVal(Ch(s, Len(s)))

-----------------------------------------------------------------------------
(* JavaScript objects: own string keys in OrdinaryOwnPropertyKeys order,   *)
(* integer-index keys ascending first, then the others in insertion order. *)
(* Every canonical numeric key of at most 9 digits is below 2^32 - 1 and   *)
(* so an integer index; longer keys do not occur in the model.             *)

IsArrayIndex(k) ==
    /\ k # ""
    /\ Len(k) <= 9
    /\ \A i \in 1..Len(k) : IsDigit(Ch(k, i))
    /\ (Len(k) > 1 => Ch(k, 1) # "0")

ObjKeys(o) ==
    [i \in 1..Len(o) |-> o[i][1]]

ObjHas(o, k) ==
    \E i \in 1..Len(o) : o[i][1] = k

ObjGet(o, k) ==
    IF ObjHas(o, k) THEN o[CHOOSE i \in 1..Len(o) : o[i][1] = k][2] ELSE undefined

ObjSet(o, k, v) ==
    IF ObjHas(o, k)
    THEN [i \in 1..Len(o) |-> IF o[i][1] = k THEN <<k, v>> ELSE o[i]]
    ELSE IF IsArrayIndex(k)
         THEN LET before == {i \in 1..Len(o) :
                               IsArrayIndex(o[i][1]) /\ NumVal(o[i][1]) < NumVal(k)}
                  n == Cardinality(before)
              IN  SubSeq(o, 1, n) \o <<(<<k, v>>)>> \o SubSeq(o, n + 1, Len(o))
         ELSE Append(o, <<k, v>>)

RECURSIVE ObjSpread_FirstWins(_, _)
ObjSpread_FirstWins(a, b) ==
    IF b = <<>> THEN a
    ELSE ObjSpread_FirstWins(IF ObjHas(a, b[1][1]) THEN a ELSE ObjSet(a, b[1][1], b[1][2]),
                             Tail(b))

RECURSIVE ObjSpread(_, _)
ObjSpread(a, b) ==
    IF b = <<>> THEN a
    ELSE ObjSpread(ObjSet(a, b[1][1], b[1][2]), Tail(b))

(* Array.prototype.find, with hits[i] the value of the predicate on seq[i] *)
find(seq, hits) ==
    IF \E i \in 1..Len(seq) : hits[i]
    THEN seq[CHOOSE i \in 1..Len(seq) : hits[i] /\ \A j \in 1..(i - 1) : ~hits[j]]
    ELSE undefined

-----------------------------------------------------------------------------
(* The explanation oracle (model.generateContent): one call either yields  *)
(* a text or throws.                                                       *)

OracleError ==
    "<oracle error>"

OracleOutcomes ==
    {OracleError, "oracle reason"}

(* An optional property of embeddingsDatabase or an optional file: <<>>    *)
(* when absent, <<v>> when present.                                        *)
absent ==
    <<>>

Some(v) ==
    <<v>>

OrEmpty(opt) ==
    IF opt = absent THEN <<>> ELSE opt[1]

-----------------------------------------------------------------------------
(* checkHSCodeCompliance(hsCode, embeddingsDatabase)                       *)

ComplianceResult(ex, al, pol, desc, reason, calls) ==
    [outcome |-> "return", exists |-> ex, allowed |-> al, policy |-> pol,
     description |-> desc, reason |-> reason, oracleCalls |-> calls]

IsFree(policy) ==
    toLowerCase(policy) = "free"

ExactMatch(hsCode, db) ==
    db.hsCodesData # absent /\ ObjHas(db.hsCodesData[1], hsCode)

exactResult_CaseSensitive(hsCode, db) ==
    LET hsData == ObjGet(db.hsCodesData[1], hsCode)
    IN  ComplianceResult(TRUE, hsData.policy = "Free", hsData.policy,
                         hsData.description, undefined, 0)

exactResult(hsCode, db) ==
    LET hsData == ObjGet(db.hsCodesData[1], hsCode)
    IN  ComplianceResult(TRUE, IsFree(hsData.policy), hsData.policy,
                         hsData.description, undefined, 0)

matchingCodes(hsCode, db) ==
    LET chapter == substring(hsCode, 0, 4)
        twoDigitChapter == substring(hsCode, 0, 2)
        inChapter(code) == startsWith(code, chapter) \/ startsWith(code, twoDigitChapter)
    IN  SelectSeq(ObjKeys(OrEmpty(db.hsCodesData)), inChapter)

chapterResult_LastPolicy(hsCode, db) ==
    LET chapter == substring(hsCode, 0, 4)
        codes == matchingCodes(hsCode, db)
        policies == [i \in 1..Len(codes) |-> ObjGet(db.hsCodesData[1], codes[i]).policy]
    IN  IF \E i \in 1..Len(policies) : IsFree(policies[i])
        THEN ComplianceResult(TRUE, TRUE, "Free",
                 "Falls under chapter " \o chapter \o " which has some free categories",
                 undefined, 0)
        ELSE ComplianceResult(TRUE, FALSE, policies[Len(policies)],
                 "Falls under chapter " \o chapter \o " which has no free categories",
                 undefined, 0)

chapterResult(hsCode, db) ==
    LET chapter == substring(hsCode, 0, 4)
        codes == matchingCodes(hsCode, db)
        policies == [i \in 1..Len(codes) |-> ObjGet(db.hsCodesData[1], codes[i]).policy]
    IN  IF \E i \in 1..Len(policies) : IsFree(policies[i])
        THEN ComplianceResult(TRUE, TRUE, "Free",
                 "Falls under chapter " \o chapter \o " which has some free categories",
                 undefined, 0)
        ELSE ComplianceResult(TRUE, FALSE, policies[1],
                 "Falls under chapter " \o chapter \o " which has no free categories",
                 undefined, 0)

oracleResult_Rethrow(hsCode, oracle) ==
    IF oracle # OracleError
    THEN ComplianceResult(FALSE, FALSE, undefined, undefined, oracle, 1)
    ELSE [outcome |-> "throw", oracleCalls |-> 1]

oracleResult(hsCode, oracle) ==
    IF oracle # OracleError
    THEN ComplianceResult(FALSE, FALSE, undefined, undefined, oracle, 1)
    ELSE ComplianceResult(FALSE, FALSE, undefined, undefined,
             "The HS Code " \o hsCode \o " was not found in the export compliance regulations. Please verify the code and try again.",
             1)

checkHSCodeCompliance(hsCode, db, oracle) ==
    IF ExactMatch(hsCode, db) THEN exactResult(hsCode, db)
    ELSE IF Len(hsCode) >= 4 /\ Len(matchingCodes(hsCode, db)) > 0
         THEN chapterResult(hsCode, db)
         ELSE oracleResult(hsCode, oracle)

-----------------------------------------------------------------------------
(* The code resolver.  A helper handed an undefined table dereferences it  *)
(* and throws a TypeError.                                                 *)

TypeError ==
    "<TypeError>"

findHSCodeByItemName_ContainsFirst(itemName, itemToHsMap) ==
    IF itemToHsMap = absent THEN TypeError
    ELSE LET map == itemToHsMap[1]
             normalizedItemName == trim(toLowerCase(itemName))
             itemKeys == ObjKeys(map)
             contains(key) == includes(key, normalizedItemName)
             containsMatch == find(itemKeys, [i \in 1..Len(itemKeys) |-> contains(itemKeys[i])])
         IN  IF Truthy(containsMatch) THEN ObjGet(map, containsMatch)
             ELSE IF Truthy(ObjGet(map, normalizedItemName))
                  THEN ObjGet(map, normalizedItemName)
                  ELSE null

findHSCodeByItemName(itemName, itemToHsMap) ==
    IF itemToHsMap = absent THEN TypeError
    ELSE LET map == itemToHsMap[1]
             normalizedItemName == trim(toLowerCase(itemName))
             itemKeys == ObjKeys(map)
             contains(key) == includes(key, normalizedItemName)
             isContained(key) == includes(normalizedItemName, key) /\ Len(key) > 5
             containsMatch == find(itemKeys, [i \in 1..Len(itemKeys) |-> contains(itemKeys[i])])
             isContainedMatch == find(itemKeys, [i \in 1..Len(itemKeys) |-> isContained(itemKeys[i])])
         IN  IF Truthy(ObjGet(map, normalizedItemName))
             THEN ObjGet(map, normalizedItemName)
             ELSE IF Truthy(containsMatch) THEN ObjGet(map, containsMatch)
             ELSE IF Truthy(isContainedMatch) THEN ObjGet(map, isContainedMatch)
             ELSE null

findHSCodeByDescription_PartialFirst(description, hsCodesData) ==
    IF hsCodesData = absent THEN TypeError
    ELSE LET table == hsCodesData[1]
             normalizedDescription == trim(toLowerCase(description))
             stored(hsCode) == toLowerCase(ObjGet(table, hsCode).description)
             partial(hsCode) == \/ includes(stored(hsCode), normalizedDescription)
                                \/ includes(normalizedDescription, stored(hsCode))
             partialMatchHsCode == find(ObjKeys(table), [i \in 1..Len(table) |-> partial(table[i][1])])
         IN  IF Truthy(partialMatchHsCode) THEN partialMatchHsCode ELSE null

findHSCodeByDescription(description, hsCodesData) ==
    IF hsCodesData = absent THEN TypeError
    ELSE LET table == hsCodesData[1]
             normalizedDescription == trim(toLowerCase(description))
             stored(hsCode) == toLowerCase(ObjGet(table, hsCode).description)
             exact(hsCode) == stored(hsCode) = normalizedDescription
             partial(hsCode) == \/ includes(stored(hsCode), normalizedDescription)
                                \/ includes(normalizedDescription, stored(hsCode))
             matchingHsCode == find(ObjKeys(table), [i \in 1..Len(table) |-> exact(table[i][1])])
             partialMatchHsCode == find(ObjKeys(table), [i \in 1..Len(table) |-> partial(table[i][1])])
         IN  IF Truthy(matchingHsCode) THEN matchingHsCode
             ELSE IF Truthy(partialMatchHsCode) THEN partialMatchHsCode ELSE null

-----------------------------------------------------------------------------
(* The chunking loop of upload-rules-pdf, with the chunk size a parameter  *)

RECURSIVE split(_, _)
split(s, sep) ==
    IF includes(s, sep)
    THEN LET i == CHOOSE i \in 1..Len(s) :
                    startsWithAt(s, sep, i) /\ \A j \in 1..(i - 1) : ~startsWithAt(s, sep, j)
         IN  <<SubSeq(s, 1, i - 1)>> \o split(SubSeq(s, i + Len(sep), Len(s)), sep)
    ELSE <<s>>

RECURSIVE chunkWords(_, _, _, _)
chunkWords(words, chunks, subChunk, maxSize) ==
    IF words = <<>> THEN [textChunks |-> chunks, subChunk |-> subChunk]
    ELSE LET word == Head(words)
         IN  IF Len(subChunk \o " " \o word) > maxSize
             THEN chunkWords(Tail(words), Append(chunks, trim(subChunk)), word, maxSize)
             ELSE chunkWords(Tail(words), chunks, subChunk \o " " \o word, maxSize)

chunkParagraph_DropRest(paragraph, chunks, currentChunk, maxSize) ==
    IF Len(currentChunk \o paragraph) > maxSize
    THEN LET flushed == IF Len(currentChunk) > 0
                        THEN Append(chunks, trim(currentChunk)) ELSE chunks
         IN  IF Len(paragraph) > maxSize
             THEN LET sub == chunkWords(split(paragraph, " "), flushed, "", maxSize)
                  IN  [textChunks |-> sub.textChunks, currentChunk |-> ""]
             ELSE [textChunks |-> flushed, currentChunk |-> paragraph]
    ELSE [textChunks |-> chunks, currentChunk |-> currentChunk \o "\n\n" \o paragraph]

chunkParagraph(paragraph, chunks, currentChunk, maxSize) ==
    IF Len(currentChunk \o paragraph) > maxSize
    THEN LET flushed == IF Len(currentChunk) > 0
                        THEN Append(chunks, trim(currentChunk)) ELSE chunks
         IN  IF Len(paragraph) > maxSize
             THEN LET sub == chunkWords(split(paragraph, " "), flushed, "", maxSize)
                  IN  [textChunks |-> sub.textChunks,
                       currentChunk |-> IF Len(sub.subChunk) > 0
                                        THEN trim(sub.subChunk) ELSE ""]
             ELSE [textChunks |-> flushed, currentChunk |-> paragraph]
    ELSE [textChunks |-> chunks, currentChunk |-> currentChunk \o "\n\n" \o paragraph]

RECURSIVE chunkParagraphs(_, _, _, _)
chunkParagraphs(paragraphs, chunks, currentChunk, maxSize) ==
    IF paragraphs = <<>>
    THEN IF Len(currentChunk) > 0 THEN Append(chunks, trim(currentChunk)) ELSE chunks
    ELSE LET step == chunkParagraph(Head(paragraphs), chunks, currentChunk, maxSize)
         IN  chunkParagraphs(Tail(paragraphs), step.textChunks, step.currentChunk, maxSize)

chunkText(text, maxSize) ==
    chunkParagraphs(split(text, "\n\n"), <<>>, "", maxSize)

-----------------------------------------------------------------------------
(* POST /api/check-export-compliance.  The handler reads the store only    *)
(* before its first await, so its response is a function of the request    *)
(* body, the store at that moment and the outcome of its one oracle call.  *)

Response(http, status, allowed, hsCode, policy, description, reason, error) ==
    [outcome |-> "response", http |-> http, status |-> status, allowed |-> allowed,
     hsCode |-> hsCode, policy |-> policy, description |-> description,
     reason |-> reason, error |-> error]

serverError ==
    Response(500, FALSE, undefined, undefined, undefined, undefined, undefined,
             "An error occurred while checking export compliance")

missingFields ==
    Response(400, FALSE, undefined, undefined, undefined, undefined, undefined,
             "Missing required fields. Please provide either hsCode, itemName, or itemDescription")

nameUnresolved(itemName) ==
    Response(200, FALSE, FALSE, undefined, undefined, undefined,
             "Could not find an HS code matching item name: " \o itemName
                 \o ". Please provide a valid HS code.",
             undefined)

descriptionUnresolved(normalizedDescription, oracle) ==
    IF oracle # OracleError
    THEN Response(200, FALSE, FALSE, undefined, undefined, undefined, oracle, undefined)
    ELSE Response(200, FALSE, FALSE, undefined, undefined, undefined,
             "No matching HS code found for description \"" \o normalizedDescription
                 \o "\". Unable to determine a specific reason due to an AI processing error.",
             undefined)

disallowedResponse_Rethrow(codeToCheck, hsCodeCompliance, oracle) ==
    IF oracle # OracleError
    THEN Response(200, FALSE, FALSE, codeToCheck, hsCodeCompliance.policy,
                  hsCodeCompliance.description, oracle, undefined)
    ELSE serverError

disallowedResponse(codeToCheck, hsCodeCompliance, oracle) ==
    IF oracle # OracleError
    THEN Response(200, FALSE, FALSE, codeToCheck, hsCodeCompliance.policy,
                  hsCodeCompliance.description, oracle, undefined)
    ELSE Response(200, FALSE, FALSE, codeToCheck, hsCodeCompliance.policy,
                  hsCodeCompliance.description,
                  "Export not allowed for HS Code " \o codeToCheck \o " with policy "
                      \o hsCodeCompliance.policy
                      \o ". Unable to determine a reason due to an AI processing error.",
                  undefined)

decisionResponse(codeToCheck, db, oracle) ==
    LET hsCodeCompliance == checkHSCodeCompliance(codeToCheck, db, oracle)
    IN  IF ~hsCodeCompliance.exists
        THEN Response(200, FALSE, FALSE, undefined, undefined, undefined,
                      hsCodeCompliance.reason, undefined)
        ELSE IF hsCodeCompliance.allowed
        THEN Response(200, TRUE, TRUE, codeToCheck, hsCodeCompliance.policy,
                      hsCodeCompliance.description, undefined, undefined)
        ELSE disallowedResponse(codeToCheck, hsCodeCompliance, oracle)

checkExportCompliance(body, db, oracle) ==
    IF ~Truthy(body.hsCode) /\ ~Truthy(body.itemName) /\ ~Truthy(body.itemDescription)
    THEN missingFields
    ELSE LET useName == ~Truthy(body.hsCode) /\ Truthy(body.itemName)
             useDescription == ~Truthy(body.hsCode) /\ Truthy(body.itemDescription)
             byName == IF useName
                       THEN findHSCodeByItemName(body.itemName, db.itemToHsMap)
                       ELSE body.hsCode
             normalizedDescription == trim(toLowerCase(body.itemDescription))
             byDescription == IF useDescription
                              THEN findHSCodeByDescription(normalizedDescription,
                                                           db.hsCodesData)
                              ELSE byName
         IN  IF useName /\ byName = TypeError THEN serverError
             ELSE IF useName /\ ~Truthy(byName) THEN nameUnresolved(body.itemName)
             ELSE IF useDescription /\ byDescription = TypeError THEN serverError
             ELSE IF useDescription /\ ~Truthy(byDescription)
             THEN descriptionUnresolved(normalizedDescription, oracle)
             ELSE decisionResponse(byDescription, db, oracle)

-----------------------------------------------------------------------------
(* extractHSCodes: the pattern                                             *)
(*   (\d{8})\s+(.*?)(?:\s+)(Free|Restricted|Prohibited|Not Permitted)  /gi *)
(* applied left to right, each search resuming at the end of the last      *)
(* match.                                                                  *)

policyLiterals ==
    <<"Free", "Restricted", "Prohibited", "Not Permitted">>

(* Number of whitespace characters from position j on *)
RECURSIVE spaceRun(_, _)
spaceRun(text, j) ==
    IF j <= Len(text) /\ IsSpace(Ch(text, j)) THEN 1 + spaceRun(text, j + 1) ELSE 0

(* Length of the policy literal found at position j letter case ignored, 0 if none *)
literalAt(text, j) ==
    LET hit(i) == /\ j + Len(policyLiterals[i]) - 1 <= Len(text)
                  /\ toLowerCase(SubSeq(text, j, j + Len(policyLiterals[i]) - 1))
                        = toLowerCase(policyLiterals[i])
    IN  IF \E i \in 1..4 : hit(i)
        THEN Len(policyLiterals[CHOOSE i \in 1..4 : hit(i) /\ \A k \in 1..(i - 1) : ~hit(k)])
        ELSE 0

digitsAt(text, i) ==
    i + 7 <= Len(text) /\ \A k \in i..(i + 7) : IsDigit(Ch(text, k))

(* The description starting at d of length n, then \s+ and a literal *)
tailMatches(text, d, n) ==
    /\ d + n - 1 <= Len(text)
    /\ \A k \in d..(d + n - 1) : Ch(text, k) # "\n"
    /\ spaceRun(text, d + n) >= 1
    /\ literalAt(text, d + n + spaceRun(text, d + n)) > 0

(* The way the backtracking matcher succeeds at position i: the first \s+  *)
(* as long as possible, then the description as short as possible.         *)
matchAt(text, i) ==
    LET maxGap == spaceRun(text, i + 8)
        ways == {w \in (1..maxGap) \X (0..Len(text)) : tailMatches(text, i + 8 + w[1], w[2])}
        best == CHOOSE w \in ways :
                    \A v \in ways : v[1] < w[1] \/ (v[1] = w[1] /\ v[2] >= w[2])
        d == i + 8 + best[1]
        lit == d + best[2] + spaceRun(text, d + best[2])
    IN  IF digitsAt(text, i) /\ ways # {}
        THEN [found |-> TRUE,
              hsCode |-> SubSeq(text, i, i + 7),
              description |-> trim(SubSeq(text, d, d + best[2] - 1)),
              exportPolicy |-> SubSeq(text, lit, lit + literalAt(text, lit) - 1),
              lastIndex |-> lit + literalAt(text, lit)]
        ELSE [found |-> FALSE]

RECURSIVE splitItems(_)
splitItems(s) ==
    LET isSep(c) == c = "," \/ c = ";" \/ c = "/"
    IN  IF \E i \in 1..Len(s) : isSep(Ch(s, i))
        THEN LET i == CHOOSE i \in 1..Len(s) :
                        isSep(Ch(s, i)) /\ \A j \in 1..(i - 1) : ~isSep(Ch(s, j))
             IN  <<SubSeq(s, 1, i - 1)>> \o splitItems(SubSeq(s, i + 1, Len(s)))
        ELSE <<s>>

RECURSIVE addItems_AtLeast3(_, _, _)
addItems_AtLeast3(itemToHsMap, items, hsCode) ==
    IF items = <<>> THEN itemToHsMap
    ELSE LET item == toLowerCase(trim(Head(items)))
         IN  addItems_AtLeast3(IF Len(item) >= 3 THEN ObjSet(itemToHsMap, item, hsCode)
                               ELSE itemToHsMap,
                               Tail(items), hsCode)

RECURSIVE addItems(_, _, _)
addItems(itemToHsMap, items, hsCode) ==
    IF items = <<>> THEN itemToHsMap
    ELSE LET item == toLowerCase(trim(Head(items)))
         IN  addItems(IF Len(item) > 3 THEN ObjSet(itemToHsMap, item, hsCode)
                      ELSE itemToHsMap,
                      Tail(items), hsCode)

RECURSIVE extractFrom(_, _, _, _)
extractFrom(text, i, hsCodesData, itemToHsMap) ==
    IF i > Len(text) THEN [hsCodesData |-> hsCodesData, itemToHsMap |-> itemToHsMap]
    ELSE LET match == matchAt(text, i)
         IN  IF match.found
             THEN extractFrom(text, match.lastIndex,
                      ObjSet(hsCodesData, match.hsCode,
                             [description |-> match.description,
                              policy |-> match.exportPolicy]),
                      ObjSet(addItems(itemToHsMap, splitItems(match.description),
                                      match.hsCode),
                             toLowerCase(match.description), match.hsCode))
             ELSE extractFrom(text, i + 1, hsCodesData, itemToHsMap)

extractHSCodes(text) ==
    extractFrom(text, 1, <<>>, <<>>)

-----------------------------------------------------------------------------
(* cosineSimilarity and findRelevantContent.  A similarity is kept as the  *)
(* three sums of the loop, [dotProduct, normA, normB], standing for        *)
(* dotProduct / (sqrt(normA) * sqrt(normB)), or is NaN.                    *)

NaN ==
    [nan |-> TRUE, dotProduct |-> 0, normA |-> 0, normB |-> 0]

RECURSIVE sumProducts(_, _, _)
sumProducts(vecA, vecB, n) ==
    IF n = 0 THEN 0 ELSE sumProducts(vecA, vecB, n - 1) + vecA[n] * vecB[n]

(* lines 264-274: vecB[i] is undefined beyond its length and makes every   *)
(* sum NaN; a zero norm gives 0 / 0                                        *)
cosineSimilarity(vecA, vecB) ==
    IF Len(vecB) < Len(vecA) THEN NaN
    ELSE LET dotProduct == sumProducts(vecA, vecB, Len(vecA))
             normA == sumProducts(vecA, vecA, Len(vecA))
             normB == sumProducts(vecB, vecB, Len(vecA))
         IN  IF normA * normB = 0 THEN NaN
             ELSE [nan |-> FALSE, dotProduct |-> dotProduct, normA |-> normA,
                   normB |-> normB]

(* s < t for two similarities that are numbers *)
similarityLess(s, t) ==
    LET ss == s.dotProduct * s.dotProduct * t.normA * t.normB
        tt == t.dotProduct * t.dotProduct * s.normA * s.normB
    IN  IF s.dotProduct < 0
        THEN t.dotProduct >= 0 \/ ss > tt
        ELSE t.dotProduct >= 0 /\ ss < tt

(* line 370: the sign of (a, b) => b.similarity - a.similarity, where a    *)
(* NaN difference counts as 0 for the sort                                 *)
compareFn(a, b) ==
    IF a.similarity.nan \/ b.similarity.nan THEN 0
    ELSE IF similarityLess(b.similarity, a.similarity) THEN -1
    ELSE IF similarityLess(a.similarity, b.similarity) THEN 1
    ELSE 0

(* Array.prototype.sort as node 18 runs it on an array of fewer than 64    *)
(* elements: the initial run is found (and reversed when strictly          *)
(* descending), the rest is inserted by binary search.                     *)
RECURSIVE runLength(_, _, _)
runLength(a, n, descending) ==
    IF n < Len(a) /\ ((compareFn(a[n + 1], a[n]) < 0) <=> descending)
    THEN runLength(a, n + 1, descending)
    ELSE n

reverse(a) ==
    [i \in 1..Len(a) |-> a[Len(a) + 1 - i]]

RECURSIVE insertionPoint(_, _, _, _)
insertionPoint(a, pivot, left, right) ==
    IF left < right
    THEN LET mid == left + ((right - left) \div 2)
         IN  IF compareFn(pivot, a[mid]) < 0
             THEN insertionPoint(a, pivot, left, mid)
             ELSE insertionPoint(a, pivot, mid + 1, right)
    ELSE left

RECURSIVE binaryInsertionSort(_, _)
binaryInsertionSort(a, start) ==
    IF start > Len(a) THEN a
    ELSE LET left == insertionPoint(a, a[start], 1, start)
         IN  binaryInsertionSort(SubSeq(a, 1, left - 1) \o <<a[start]>>
                                    \o SubSeq(a, left, start - 1)
                                    \o SubSeq(a, start + 1, Len(a)),
                                 start + 1)

sort(a) ==
    IF Len(a) < 2 THEN a
    ELSE LET descending == compareFn(a[2], a[1]) < 0
             n == runLength(a, 2, descending)
             run == IF descending THEN reverse(SubSeq(a, 1, n)) ELSE SubSeq(a, 1, n)
         IN  binaryInsertionSort(run \o SubSeq(a, n + 1, Len(a)), n + 1)

topK ==
    5

RECURSIVE join(_, _)
join(strings, sep) ==
    IF strings = <<>> THEN ""
    ELSE IF Len(strings) = 1 THEN strings[1]
    ELSE strings[1] \o sep \o join(Tail(strings), sep)

(* lines 359-377: a failure of the embedding oracle, or a store without a  *)
(* chunk list, is rethrown                                                 *)
findRelevantContent(queryEmbedResult, db) ==
    IF ~queryEmbedResult.ok \/ db.chunks = absent
    THEN [outcome |-> "throw"]
    ELSE LET chunks == db.chunks[1]
             queryEmbedding == queryEmbedResult.values
             similarityScores ==
                 [i \in 1..Len(chunks) |->
                    [id |-> chunks[i].id, content |-> chunks[i].content,
                     embedding |-> chunks[i].embedding,
                     similarity |-> cosineSimilarity(queryEmbedding, chunks[i].embedding)]]
             sorted == sort(similarityScores)
             topResults == SubSeq(sorted, 1, Min(topK, Len(sorted)))
         IN  [outcome |-> "return",
              content |-> join([i \in 1..Len(topResults) |-> topResults[i].content], "\n\n")]

-----------------------------------------------------------------------------
(* Values the variables hold while a handler or helper has not run         *)

Requests ==
    {1, 2}

NoResult ==
    [outcome |-> "none"]

NoRequest ==
    [op |-> "none"]

IdleIngest ==
    [pc |-> "idle", file |-> 0, pdfText |-> "", existingEmbeddingsData |-> absent,
     existingItemToHsMap |-> <<>>, mergedHsCodesData |-> <<>>,
     mergedItemToHsMap |-> <<>>, results |-> <<>>]

IdleShipment ==
    [pc |-> "idle"]

Db(chunks, hsCodesData, itemToHsMap) ==
    [chunks |-> chunks, hsCodesData |-> hsCodesData, itemToHsMap |-> itemToHsMap]

Quiet ==
    /\ fileEmbeddings = absent
    /\ fileItemToHs = absent
    /\ uploads = {}
    /\ ingest = [r \in Requests |-> IdleIngest]
    /\ started = 0
    /\ response = NoResult
    /\ twin = NoResult
    /\ request = NoRequest
    /\ result = NoResult
    /\ pdfText = ""
    /\ textChunks = <<>>
    /\ shipment = IdleShipment

-----------------------------------------------------------------------------
(* Code tables the extractor can build: 8-digit keys, a description and a  *)
(* policy literal in any letter case.                                      *)

TableCodes ==
    {"12345678", "12340000", "12990000", "01234567", "01230000"}

HSCodeEntry(description, policy) ==
    [description |-> description, policy |-> policy]

TableEntries ==
    {HSCodeEntry("tea", "Free"), HSCodeEntry("rice", "FREE"),
     HSCodeEntry("tea", "Restricted"), HSCodeEntry("rice", "Not Permitted")}

RECURSIVE TablesUpTo(_)
TablesUpTo(n) ==
    IF n = 0 THEN {<<>>}
    ELSE LET prev == TablesUpTo(n - 1)
         IN  prev \cup {ObjSet(t, c, e) : t \in prev, c \in TableCodes, e \in TableEntries}

QueryCodes ==
    {"12345678", "12349999", "1299", "0123", "01239999", "123", "12", "99999999"}

(* Specification of the decision engine alone: any code table, any query   *)
InitDecide ==
    /\ embeddingsDatabase \in
         {Db(absent, absent, absent)} \cup
         {Db(absent, Some(t), absent) : t \in TablesUpTo(MaxEntries)}
    /\ Quiet

CallCheckHSCodeCompliance ==
    \E hsCode \in QueryCodes, oracle \in OracleOutcomes :
        /\ request' = [op |-> "checkHSCodeCompliance", hsCode |-> hsCode, oracle |-> oracle]
        /\ result' = checkHSCodeCompliance(hsCode, embeddingsDatabase, oracle)
        /\ UNCHANGED <<embeddingsDatabase, fileEmbeddings, fileItemToHs, uploads, ingest,
                       started, response, twin, pdfText, textChunks, shipment>>

NextDecide ==
    CallCheckHSCodeCompliance

SpecDecide ==
    InitDecide /\ [][NextDecide]_vars

-----------------------------------------------------------------------------
(* Claims about checkHSCodeCompliance *)

Decided ==
    request.op = "checkHSCodeCompliance"

StoredCodes ==
    ObjKeys(OrEmpty(embeddingsDatabase.hsCodesData))

IsStoredCode(c) ==
    \E i \in 1..Len(StoredCodes) : StoredCodes[i] = c

StoredEntry(c) ==
    ObjGet(embeddingsDatabase.hsCodesData[1], c)

(* Every spelling of the literal Free, letter case ignored *)
FreeLiterals ==
    {f \o r \o e1 \o e2 : f \in {"f", "F"}, r \in {"r", "R"},
                          e1 \in {"e", "E"}, e2 \in {"e", "E"}}

(* The stored codes sharing the query's 4- or 2-character prefix, in table *)
(* iteration order.                                                        *)
ChapterCodes(c) ==
    LET share(k) == SubSeq(k, 1, 4) = SubSeq(c, 1, 4) \/ SubSeq(k, 1, 2) = SubSeq(c, 1, 2)
    IN  SelectSeq(StoredCodes, share)

(* C1: when the queried code is a key of the code table the result has     *)
(* exists=true, the stored policy and description, allowed exactly when    *)
(* the stored policy is Free in any letter case, and no oracle call.       *)
C1_ExactMatch ==
    (Decided /\ IsStoredCode(request.hsCode)) =>
        /\ result.outcome = "return"
        /\ result.exists = TRUE
        /\ result.policy = StoredEntry(request.hsCode).policy
        /\ result.description = StoredEntry(request.hsCode).description
        /\ (result.allowed <=> StoredEntry(request.hsCode).policy \in FreeLiterals)
        /\ result.oracleCalls = 0

C1_Witness ==
    /\ Decided /\ IsStoredCode(request.hsCode)
    /\ StoredEntry(request.hsCode).policy = "FREE"
    /\ result.allowed = TRUE

(* C2: a code of length >= 4 that is not a key, with M the stored codes    *)
(* sharing its 4- or 2-character prefix: some Free code in M gives         *)
(* exists=true, allowed=true; a non-empty M without a Free code gives      *)
(* exists=true, allowed=false and the policy of the first code of M in     *)
(* table iteration order.  The table {12345678: Restricted, 12340000:      *)
(* Free} queried with 12349999 gives allowed=true.                         *)
C2_ChapterFallback ==
    (Decided /\ Len(request.hsCode) >= 4 /\ ~IsStoredCode(request.hsCode)) =>
        LET M == ChapterCodes(request.hsCode)
            someFree == \E i \in 1..Len(M) : StoredEntry(M[i]).policy \in FreeLiterals
        IN  /\ someFree => (result.exists = TRUE /\ result.allowed = TRUE)
            /\ (M # <<>> /\ ~someFree) =>
                  /\ result.exists = TRUE
                  /\ result.allowed = FALSE
                  /\ result.policy = StoredEntry(M[1]).policy
            /\ (/\ StoredCodes = <<"12340000", "12345678">>
                /\ StoredEntry("12345678").policy = "Restricted"
                /\ StoredEntry("12340000").policy = "Free"
                /\ request.hsCode = "12349999") => result.allowed = TRUE

C2_Witness ==
    /\ Decided /\ request.hsCode = "12349999"
    /\ StoredCodes = <<"12340000", "12345678">>
    /\ StoredEntry("12345678").policy = "Restricted"
    /\ StoredEntry("12340000").policy = "Not Permitted"
    /\ result.exists = TRUE /\ result.policy = "Not Permitted"

(* The stored codes sharing the query's 4-character prefix *)
FourDigitCodes(c) ==
    LET share(k) == SubSeq(k, 1, 4) = SubSeq(c, 1, 4)
    IN  SelectSeq(StoredCodes, share)

(* C20: when the queried code is not a key and some stored code shares its *)
(* 4-digit prefix, the result is allowed exactly when one of the codes     *)
(* sharing the 4-digit prefix is Free; codes sharing only the 2-digit      *)
(* prefix play no part, so a result saying that the 4-digit chapter has    *)
(* some free categories implies a Free code with that 4-digit prefix.      *)
C20_ChapterPrecedence ==
    (/\ Decided /\ Len(request.hsCode) >= 4 /\ ~IsStoredCode(request.hsCode)
     /\ FourDigitCodes(request.hsCode) # <<>>) =>
        LET M4 == FourDigitCodes(request.hsCode)
            someFree == \E i \in 1..Len(M4) : StoredEntry(M4[i]).policy \in FreeLiterals
        IN  /\ result.exists = TRUE
            /\ result.allowed <=> someFree
            /\ result.description =
                   "Falls under chapter " \o SubSeq(request.hsCode, 1, 4)
                      \o " which has some free categories" => someFree

CannedFallback(c) ==
    "The HS Code " \o c \o " was not found in the export compliance regulations. Please verify the code and try again."

(* C3: with no exact and no chapter match (short codes and an absent code  *)
(* table included) the oracle is called exactly once and the call returns  *)
(* exists=false, allowed=false with the oracle text, or with the canned    *)
(* text when the oracle failed; no error reaches the caller.               *)
C3_OracleStep ==
    (/\ Decided /\ ~IsStoredCode(request.hsCode)
     /\ (Len(request.hsCode) < 4 \/ ChapterCodes(request.hsCode) = <<>>)) =>
        /\ result.outcome = "return"
        /\ result.oracleCalls = 1
        /\ result.exists = FALSE
        /\ result.allowed = FALSE
        /\ result.reason = IF request.oracle = OracleError
                           THEN CannedFallback(request.hsCode)
                           ELSE request.oracle

C3_Witness ==
    /\ Decided /\ request.hsCode = "12" /\ request.oracle = OracleError
    /\ IsStoredCode("12345678")
    /\ result.outcome = "return" /\ result.exists = FALSE
    /\ result.reason = CannedFallback("12")

-----------------------------------------------------------------------------
(* Specification of the resolver alone: any phrase index or code table     *)
(* the extractor can build, any item name or description.                  *)

IndexPhrases ==
    {"shirts", "cotton shirts", "fine cotton shirts", "shirt", "", "tea 12", "1234"}

IndexCodes ==
    {"12345678", "12340000"}

RECURSIVE IndexesUpTo(_)
IndexesUpTo(n) ==
    IF n = 0 THEN {<<>>}
    ELSE LET prev == IndexesUpTo(n - 1)
         IN  prev \cup {ObjSet(m, k, c) : m \in prev, k \in IndexPhrases, c \in IndexCodes}

(* The assignments itemToHsMap[item] = hsCode that build an index, in the  *)
(* order the extractor and the merge make them.                            *)
RECURSIVE AssignmentsUpTo(_)
AssignmentsUpTo(n) ==
    IF n = 0 THEN {<<>>}
    ELSE LET prev == AssignmentsUpTo(n - 1)
         IN  prev \cup {Append(h, <<k, c>>) : h \in prev, k \in IndexPhrases, c \in IndexCodes}

RECURSIVE IndexAfter(_)
IndexAfter(assignments) ==
    IF assignments = <<>> THEN <<>>
    ELSE LET last == assignments[Len(assignments)]
         IN  ObjSet(IndexAfter(SubSeq(assignments, 1, Len(assignments) - 1)),
                    last[1], last[2])

ItemNames ==
    {"shirts", " Cotton Shirts", "cotton", "shirt", "wool", " ", "12"}

DescribedEntries ==
    {HSCodeEntry("Tea", "Free"), HSCodeEntry("Green Tea", "Restricted"),
     HSCodeEntry("rice", "Free"), HSCodeEntry("", "Prohibited")}

DescribedCodes ==
    {"12345678", "12340000", "01234567"}

RECURSIVE DescribedTablesUpTo(_)
DescribedTablesUpTo(n) ==
    IF n = 0 THEN {<<>>}
    ELSE LET prev == DescribedTablesUpTo(n - 1)
         IN  prev \cup {ObjSet(t, c, e) : t \in prev, c \in DescribedCodes, e \in DescribedEntries}

Descriptions ==
    {"tea", " TEA ", "green tea leaves", "gree", "Rice", "wool", " "}

InitResolve ==
    /\ embeddingsDatabase \in
         {Db(absent, Some(<<>>), Some(m)) : m \in IndexesUpTo(MaxKeys)} \cup
         {Db(absent, Some(t), Some(<<>>)) : t \in DescribedTablesUpTo(MaxEntries)}
    /\ Quiet

CallFindHSCodeByItemName ==
    \E itemName \in ItemNames :
        /\ request' = [op |-> "findHSCodeByItemName", itemName |-> itemName]
        /\ result' = [outcome |-> "return",
                      value |-> findHSCodeByItemName(itemName, embeddingsDatabase.itemToHsMap)]
        /\ UNCHANGED <<embeddingsDatabase, fileEmbeddings, fileItemToHs, uploads, ingest,
                       started, response, twin, pdfText, textChunks, shipment>>

CallFindHSCodeByDescription ==
    \E description \in Descriptions :
        /\ request' = [op |-> "findHSCodeByDescription", description |-> description]
        /\ result' = [outcome |-> "return",
                      value |-> findHSCodeByDescription(description,
                                                        embeddingsDatabase.hsCodesData)]
        /\ UNCHANGED <<embeddingsDatabase, fileEmbeddings, fileItemToHs, uploads, ingest,
                       started, response, twin, pdfText, textChunks, shipment>>

NextResolve ==
    \/ CallFindHSCodeByItemName
    \/ CallFindHSCodeByDescription

SpecResolve ==
    InitResolve /\ [][NextResolve]_vars

-----------------------------------------------------------------------------
(* Claims about the resolver *)

PhraseIndex ==
    OrEmpty(embeddingsDatabase.itemToHsMap)

Phrases ==
    {PhraseIndex[i][1] : i \in 1..Len(PhraseIndex)}

CodeOfPhrase(k) ==
    ObjGet(PhraseIndex, k)

NormalizedName ==
    trim(toLowerCase(request.itemName))

ContainingPhrases ==
    {k \in Phrases : includes(k, NormalizedName)}

ContainedPhrases ==
    {k \in Phrases : includes(NormalizedName, k) /\ Len(k) > 5}

(* C4: findHSCodeByItemName returns the code of the exact key when the     *)
(* normalized name is a key; otherwise the code of a key containing the    *)
(* name; otherwise the code of a key contained in the name; otherwise      *)
(* null.                                                                   *)
C4_ResolverTiers ==
    request.op = "findHSCodeByItemName" =>
        IF NormalizedName \in Phrases
        THEN result.value = CodeOfPhrase(NormalizedName)
        ELSE IF ContainingPhrases # {}
        THEN result.value \in {CodeOfPhrase(k) : k \in ContainingPhrases}
        ELSE IF ContainedPhrases # {}
        THEN result.value \in {CodeOfPhrase(k) : k \in ContainedPhrases}
        ELSE result.value = null

C4_Witness ==
    /\ request.op = "findHSCodeByItemName" /\ request.itemName = " Cotton Shirts"
    /\ PhraseIndex = <<(<<"fine cotton shirts", "12340000">>), (<<"cotton shirts", "12345678">>)>>
    /\ result.value = "12345678"

(* The phrase of S that entered the index first under the assignments h *)
FirstEntered(h, S) ==
    h[CHOOSE i \in 1..Len(h) : h[i][1] \in S /\ \A j \in 1..(i - 1) : h[j][1] \notin S][1]

(* C21: when the normalized item name is not a key, findHSCodeByItemName   *)
(* returns the code of the phrase containing the name that entered the     *)
(* index first (an overwritten phrase keeps its place); failing that, the  *)
(* code of the phrase longer than 5 characters and contained in the name   *)
(* that entered first; and null when no phrase contains the name and only  *)
(* phrases of 5 or fewer characters are contained in it.                   *)
C21_FirstMatchByInsertion ==
    (request.op = "findHSCodeByItemName" /\ NormalizedName \notin Phrases) =>
        \A h \in AssignmentsUpTo(MaxKeys) :
            IndexAfter(h) = PhraseIndex =>
                IF ContainingPhrases # {}
                THEN result.value = CodeOfPhrase(FirstEntered(h, ContainingPhrases))
                ELSE IF ContainedPhrases # {}
                THEN result.value = CodeOfPhrase(FirstEntered(h, ContainedPhrases))
                ELSE result.value = null

StoredDescription(c) ==
    toLowerCase(StoredEntry(c).description)

NormalizedQuery ==
    trim(toLowerCase(request.description))

EqualCodes ==
    {i \in 1..Len(StoredCodes) : StoredDescription(StoredCodes[i]) = NormalizedQuery}

PartialCodes ==
    {i \in 1..Len(StoredCodes) :
        \/ includes(StoredDescription(StoredCodes[i]), NormalizedQuery)
        \/ includes(NormalizedQuery, StoredDescription(StoredCodes[i]))}

(* C5: findHSCodeByDescription returns a code whose description equals    *)
(* the normalized query (letter case ignored) when there is one, even if   *)
(* other descriptions match partially; otherwise the first code in table   *)
(* iteration order whose description contains the query or is contained    *)
(* in it; and null exactly when no description is equal to, contains or    *)
(* is contained in the query.                                              *)
C5_ResolveByDescription ==
    request.op = "findHSCodeByDescription" =>
        /\ EqualCodes # {} => \E i \in EqualCodes : result.value = StoredCodes[i]
        /\ (EqualCodes = {} /\ PartialCodes # {}) =>
              \E i \in PartialCodes :
                  /\ result.value = StoredCodes[i]
                  /\ \A j \in PartialCodes : i <= j
        /\ (result.value = null) <=> (EqualCodes = {} /\ PartialCodes = {})

C5_Witness ==
    /\ request.op = "findHSCodeByDescription" /\ request.description = " TEA "
    /\ StoredCodes = <<"12340000", "12345678">>
    /\ StoredEntry("12340000").description = "Green Tea"
    /\ StoredEntry("12345678").description = "Tea"
    /\ result.value = "12345678"

-----------------------------------------------------------------------------
(* Specification of the chunker alone: every text over two letters, the    *)
(* space and the line break, chunked with a small maximum size.            *)

TextChars ==
    {"a", "b", " ", "\n"}

RECURSIVE TextsUpTo(_)
TextsUpTo(n) ==
    IF n = 0 THEN {""}
    ELSE LET prev == TextsUpTo(n - 1)
         IN  prev \cup {t \o c : t \in prev, c \in TextChars}

InitChunk ==
    /\ pdfText \in TextsUpTo(MaxTextLen)
    /\ textChunks = <<>>
    /\ embeddingsDatabase = Db(absent, absent, absent)
    /\ fileEmbeddings = absent
    /\ fileItemToHs = absent
    /\ uploads = {}
    /\ ingest = [r \in Requests |-> IdleIngest]
    /\ started = 0
    /\ response = NoResult
    /\ twin = NoResult
    /\ request = NoRequest
    /\ result = NoResult
    /\ shipment = IdleShipment

ChunkPdfText ==
    /\ request.op = "none"
    /\ request' = [op |-> "chunk"]
    /\ textChunks' = chunkText(pdfText, MaxSize)
    /\ UNCHANGED <<embeddingsDatabase, fileEmbeddings, fileItemToHs, uploads, ingest,
                   started, response, twin, result, pdfText, shipment>>

NextChunk ==
    ChunkPdfText

SpecChunk ==
    InitChunk /\ [][NextChunk]_vars

-----------------------------------------------------------------------------
(* Claims about the chunker *)

Chunked ==
    request.op = "chunk"

HasSpace(s) ==
    \E i \in 1..Len(s) : IsSpace(Ch(s, i))

(* The words of a text: its maximal runs of non-blank characters *)
RECURSIVE Words(_)
Words(s) ==
    LET t == trimStart(s)
    IN  IF t = "" THEN <<>>
        ELSE LET n == IF HasSpace(t)
                      THEN (CHOOSE i \in 1..Len(t) :
                               IsSpace(Ch(t, i)) /\ \A j \in 1..(i - 1) : ~IsSpace(Ch(t, j))) - 1
                      ELSE Len(t)
             IN  <<SubSeq(t, 1, n)>> \o Words(SubSeq(t, n + 1, Len(t)))

RECURSIVE WordsOfAll(_)
WordsOfAll(chunks) ==
    IF chunks = <<>> THEN <<>> ELSE Words(Head(chunks)) \o WordsOfAll(Tail(chunks))

(* C8: every chunk has length at most the maximum size unless it is a      *)
(* single word that is by itself longer than the maximum size.             *)
C8_ChunkSizeBound ==
    Chunked =>
        \A i \in 1..Len(textChunks) :
            Len(textChunks[i]) <= MaxSize \/ ~HasSpace(textChunks[i])

(* C9: every chunk produced is a non-empty string after trimming.          *)
C9_ChunksNonEmpty ==
    Chunked => \A i \in 1..Len(textChunks) : trim(textChunks[i]) # ""

(* C10: the words of the chunks, taken in output order, are the words of   *)
(* the input in reading order; the last partial sub-buffer of an oversized *)
(* paragraph is carried into the next chunk.                               *)
C10_ContentPreserved ==
    Chunked => WordsOfAll(textChunks) = Words(pdfText)

C10_Witness ==
    /\ Chunked
    /\ pdfText = "ab a\n\nb"
    /\ textChunks = <<"ab", "a\n\nb">>

-----------------------------------------------------------------------------
(* The service: the store in memory and on disk, upload-rules-pdf requests *)
(* run step by step between their awaits, check-export-compliance          *)
(* requests, and process restarts.                                         *)

Documents ==
    {"12345678 Shirts Free\n\n12340000 Tea Restricted", "12345678 Tea Prohibited"}

Embedding ==
    <<1>>

Init ==
    /\ embeddingsDatabase = Db(absent, absent, absent)
    /\ Quiet

UploadResponse(http, status) ==
    [outcome |-> "response", http |-> http, status |-> status]

(* lines 100-105: no file in the request *)
UploadNoFile ==
    /\ request.op = "none"
    /\ request' = [op |-> "upload", file |-> 0, mimetype |-> undefined]
    /\ response' = UploadResponse(400, FALSE)
    /\ UNCHANGED <<embeddingsDatabase, fileEmbeddings, fileItemToHs, uploads, ingest,
                   started, twin, result, pdfText, textChunks, shipment>>

(* lines 108-116: the first file is not a PDF *)
UploadOtherFile_Reset ==
    /\ request.op = "none"
    /\ request' = [op |-> "upload", file |-> 0, mimetype |-> "text/plain"]
    /\ response' = UploadResponse(200, TRUE)
    /\ embeddingsDatabase' = Db(absent, absent, absent)
    /\ UNCHANGED <<fileEmbeddings, fileItemToHs, uploads, ingest,
                   started, twin, result, pdfText, textChunks, shipment>>

UploadOtherFile ==
    /\ request.op = "none"
    /\ request' = [op |-> "upload", file |-> 0, mimetype |-> "text/plain"]
    /\ response' = UploadResponse(200, TRUE)
    /\ UNCHANGED <<embeddingsDatabase, fileEmbeddings, fileItemToHs, uploads, ingest,
                   started, twin, result, pdfText, textChunks, shipment>>

(* lines 118-124: a PDF; the handler reads it and awaits pdfParse.  The    *)
(* request takes the first free slot.                                      *)
UploadPdf(r) ==
    \E doc \in Documents :
        /\ request.op = "none"
        /\ ingest[r].pc = "idle"
        /\ \A q \in Requests : q < r => ingest[q].pc # "idle"
        /\ started < MaxUploads
        /\ started' = started + 1
        /\ uploads' = uploads \cup {started + 1}
        /\ ingest' = [ingest EXCEPT ![r] =
                        [IdleIngest EXCEPT !.pc = "parsing", !.file = started + 1,
                                           !.pdfText = doc]]
        /\ UNCHANGED <<embeddingsDatabase, fileEmbeddings, fileItemToHs,
                       response, twin, request, result, pdfText, textChunks, shipment>>

(* lines 248-257: the catch block *)
failIngest_KeepFile(r) ==
    /\ uploads' = uploads
    /\ ingest' = [ingest EXCEPT ![r] = IdleIngest]
    /\ request' = [op |-> "upload", file |-> ingest[r].file]
    /\ response' = UploadResponse(500, FALSE)

failIngest(r) ==
    /\ uploads' = uploads \ {ingest[r].file}
    /\ ingest' = [ingest EXCEPT ![r] = IdleIngest]
    /\ request' = [op |-> "upload", file |-> ingest[r].file]
    /\ response' = UploadResponse(500, FALSE)

(* lines 143, 202, 217: the code table and the chunk list of the loaded    *)
(* snapshot, empty when there was no file                                  *)
existingHsCodesData(existing) ==
    IF existing = absent THEN <<>> ELSE existing[1].hsCodesData

existingChunks(existing) ==
    IF existing = absent THEN <<>> ELSE existing[1].chunks

(* lines 194-196: the task of one chunk, which calls the embedding oracle  *)
(* once (execs) and awaits it                                              *)
embeddingTask(chunk) ==
    [state |-> "pending", execs |-> 1, id |-> 0, content |-> chunk, embedding |-> <<>>]

(* lines 124-212: pdfParse settles; on success extractHSCodes, the load of *)
(* the existing files, the merge of the tables, the chunking and the start *)
(* of one embedding task per chunk, up to the await of Promise.all         *)
ParseSettled(r) ==
    \E outcome \in {"parsed", "parse fails", "read fails"} :
        /\ request.op = "none"
        /\ ingest[r].pc = "parsing"
        /\ outcome = "read fails" => (fileEmbeddings # absent \/ fileItemToHs # absent)
        /\ IF outcome # "parsed"
           THEN failIngest(r)
           ELSE LET new == extractHSCodes(ingest[r].pdfText)
                    chunks == chunkText(ingest[r].pdfText, chunkSize)
                IN  /\ ingest' = [ingest EXCEPT ![r] =
                          [ingest[r] EXCEPT
                             !.pc = "embedding",
                             !.existingEmbeddingsData = fileEmbeddings,
                             !.existingItemToHsMap = OrEmpty(fileItemToHs),
                             !.mergedHsCodesData =
                                 ObjSpread(existingHsCodesData(fileEmbeddings), new.hsCodesData),
                             !.mergedItemToHsMap = ObjSpread(OrEmpty(fileItemToHs), new.itemToHsMap),
                             !.results = [i \in 1..Len(chunks) |-> embeddingTask(chunks[i])]]]
                    /\ UNCHANGED <<uploads, request, response>>
        /\ UNCHANGED <<embeddingsDatabase, fileEmbeddings, fileItemToHs, started,
                       twin, result, pdfText, textChunks, shipment>>

(* lines 194-210: one embedding task settles *)
EmbeddingSettled(r) ==
    \E i \in 1..Len(ingest[r].results), embedded \in BOOLEAN :
        /\ request.op = "none"
        /\ ingest[r].pc = "embedding"
        /\ ingest[r].results[i].state = "pending"
        /\ ingest' = [ingest EXCEPT ![r].results[i] =
                        IF embedded
                        THEN [state |-> "chunk",
                              execs |-> ingest[r].results[i].execs,
                              id |-> (i - 1) + Len(existingChunks(ingest[r].existingEmbeddingsData)),
                              content |-> ingest[r].results[i].content,
                              embedding |-> Embedding]
                        ELSE [@ EXCEPT !.state = "null"]]
        /\ UNCHANGED <<embeddingsDatabase, fileEmbeddings, fileItemToHs, uploads, started,
                       response, twin, request, result, pdfText, textChunks, shipment>>

Chunk(res) ==
    [id |-> res.id, content |-> res.content, embedding |-> res.embedding]

(* line 213: the results that are not null, in the order of the tasks *)
successfulChunks_StopAtFailure(results) ==
    LET isNull(res) == res.state = "null"
        failed == {i \in 1..Len(results) : isNull(results[i])}
        n == IF failed = {} THEN Len(results)
             ELSE (CHOOSE i \in failed : \A j \in failed : i <= j) - 1
    IN  [i \in 1..n |-> Chunk(results[i])]

successfulChunks(results) ==
    LET isChunk(res) == res.state = "chunk"
        successful == SelectSeq(results, isChunk)
    IN  [i \in 1..Len(successful) |-> Chunk(successful[i])]

(* lines 216-219: the new chunks go after the loaded ones *)
mergedChunks_NewFirst(existing, successful) ==
    successful \o existingChunks(existing)

mergedChunks_OntoCurrent(existing, successful) ==
    existingChunks(fileEmbeddings) \o successful

mergedChunks(existing, successful) ==
    existingChunks(existing) \o successful

(* lines 212-234: Promise.all resolves; the merge, the two writes (written *)
(* counts the writes that succeed) and the update of the in-memory store,  *)
(* up to the await of pool.terminate                                       *)
MergeAndPersist(r) ==
    \E written \in 0..2 :
        /\ request.op = "none"
        /\ ingest[r].pc = "embedding"
        /\ \A i \in 1..Len(ingest[r].results) : ingest[r].results[i].state # "pending"
        /\ LET merged == mergedChunks(ingest[r].existingEmbeddingsData,
                                      successfulChunks(ingest[r].results))
           IN  /\ fileEmbeddings' =
                     IF written >= 1
                     THEN Some([chunks |-> merged,
                                hsCodesData |-> ingest[r].mergedHsCodesData])
                     ELSE fileEmbeddings
               /\ fileItemToHs' =
                     IF written = 2 THEN Some(ingest[r].mergedItemToHsMap) ELSE fileItemToHs
               /\ IF written = 2
                  THEN /\ embeddingsDatabase' =
                             Db(Some(merged), Some(ingest[r].mergedHsCodesData),
                                Some(ingest[r].mergedItemToHsMap))
                       /\ ingest' = [ingest EXCEPT ![r].pc = "terminating"]
                       /\ UNCHANGED <<uploads, request, response>>
                  ELSE /\ failIngest(r)
                       /\ UNCHANGED embeddingsDatabase
        /\ UNCHANGED <<started, twin, result, pdfText, textChunks, shipment>>

(* lines 234-247: the pool has terminated; the temporary file is removed *)
PoolTerminated(r) ==
    /\ request.op = "none"
    /\ ingest[r].pc = "terminating"
    /\ uploads' = uploads \ {ingest[r].file}
    /\ ingest' = [ingest EXCEPT ![r] = IdleIngest]
    /\ request' = [op |-> "upload", file |-> ingest[r].file]
    /\ response' = UploadResponse(200, TRUE)
    /\ UNCHANGED <<embeddingsDatabase, fileEmbeddings, fileItemToHs, started,
                   twin, result, pdfText, textChunks, shipment>>

(* lines 24-30: the process starts again and requires the snapshot file;   *)
(* requests in flight are lost with the old process                        *)
Restart ==
    /\ request.op = "none"
    /\ embeddingsDatabase' =
          IF fileEmbeddings = absent THEN Db(absent, absent, absent)
          ELSE Db(Some(fileEmbeddings[1].chunks), Some(fileEmbeddings[1].hsCodesData), absent)
    /\ ingest' = [r \in Requests |-> IdleIngest]
    /\ UNCHANGED <<fileEmbeddings, fileItemToHs, uploads, started, response, twin,
                   request, result, pdfText, textChunks, shipment>>

HsCodeInputs ==
    {undefined, "12340000"}

ItemNameInputs ==
    {undefined, "Cotton Shirts"}

ItemDescriptionInputs ==
    {undefined, " TEA"}

OtherOutcome(oracle) ==
    IF oracle = OracleError THEN CHOOSE o \in OracleOutcomes : o # OracleError ELSE OracleError

(* lines 383-486: one check-export-compliance request *)
CheckExportCompliance ==
    \E hsCode \in HsCodeInputs, itemName \in ItemNameInputs,
       itemDescription \in ItemDescriptionInputs, oracle \in OracleOutcomes :
        LET body == [hsCode |-> hsCode, itemName |-> itemName,
                     itemDescription |-> itemDescription]
        IN  /\ request.op = "none"
            /\ request' = [op |-> "checkExportCompliance", body |-> body, oracle |-> oracle]
            /\ response' = checkExportCompliance(body, embeddingsDatabase, oracle)
            /\ twin' = checkExportCompliance(body, embeddingsDatabase, OtherOutcome(oracle))
            /\ UNCHANGED <<embeddingsDatabase, fileEmbeddings, fileItemToHs, uploads, ingest,
                           started, result, pdfText, textChunks, shipment>>

(* The response of the latest request has left the server.  A handler step *)
(* answers within the step, so no other step runs in between.              *)
SendResponse ==
    /\ request.op \in {"checkExportCompliance", "upload"}
    /\ request' = NoRequest
    /\ response' = NoResult
    /\ twin' = NoResult
    /\ UNCHANGED <<embeddingsDatabase, fileEmbeddings, fileItemToHs, uploads, ingest,
                   started, result, pdfText, textChunks, shipment>>

(* The steps of upload-rules-pdf requests and process restarts *)
NextIngest ==
    \/ UploadNoFile
    \/ UploadOtherFile
    \/ \E r \in Requests : UploadPdf(r)
    \/ \E r \in Requests : ParseSettled(r)
    \/ \E r \in Requests : EmbeddingSettled(r)
    \/ \E r \in Requests : MergeAndPersist(r)
    \/ \E r \in Requests : PoolTerminated(r)
    \/ Restart
    \/ SendResponse

Next ==
    \/ NextIngest
    \/ CheckExportCompliance

Spec ==
    Init /\ [][Next]_vars

(* The service without check-export-compliance requests, which read the    *)
(* store in memory and change nothing: the specification of the claims     *)
(* about ingestion alone.                                                  *)
SpecIngest ==
    Init /\ [][NextIngest]_vars

-----------------------------------------------------------------------------
(* Claims about check-export-compliance *)

Checked ==
    request.op = "checkExportCompliance"

(* No tier of the item-name resolver matches: no phrase of the index       *)
(* equals or contains the normalized name, and none longer than 5          *)
(* characters is contained in it.                                          *)
NameMatchesNothing(itemName) ==
    LET n == trim(toLowerCase(itemName))
    IN  \A k \in Phrases : ~includes(k, n) /\ ~(includes(n, k) /\ Len(k) > 5)

(* No tier of the description resolver matches *)
DescriptionMatchesNothing(description) ==
    LET q == trim(toLowerCase(description))
    IN  \A i \in 1..Len(StoredCodes) :
            /\ ~includes(StoredDescription(StoredCodes[i]), q)
            /\ ~includes(q, StoredDescription(StoredCodes[i]))

(* C6: in every reachable state of the store a request without hsCode      *)
(* whose item name or item description matches nothing in any resolver     *)
(* tier gets a normal negative result (status=false, allowed=false, a      *)
(* non-empty reason), never a server error.                                *)
C6_UnresolvedIsNegative ==
    (/\ Checked
     /\ ~Truthy(request.body.hsCode)
     /\ \/ Truthy(request.body.itemName) /\ NameMatchesNothing(request.body.itemName)
        \/ /\ Truthy(request.body.itemDescription)
           /\ DescriptionMatchesNothing(request.body.itemDescription)) =>
        /\ response.http = 200
        /\ response.status = FALSE
        /\ response.allowed = FALSE
        /\ Truthy(response.reason)

(* The response says that no code could be resolved for the request *)
Unresolved ==
    \/ response = nameUnresolved(request.body.itemName)
    \/ response = descriptionUnresolved(trim(toLowerCase(request.body.itemDescription)),
                                        request.oracle)

(* C26: a request with an hsCode is decided on that code whatever the      *)
(* phrase index and the descriptions hold; a request without hsCode but    *)
(* with both itemName and itemDescription, on a store that has both        *)
(* tables, is reported unresolved only if neither the name nor the         *)
(* description resolves, and is otherwise decided on the code resolved     *)
(* from the name or on the one resolved from the description; a request    *)
(* with none of the three is answered 400.                                 *)
C26_InputPrecedence ==
    Checked =>
        LET body == request.body
            byName == findHSCodeByItemName(body.itemName, embeddingsDatabase.itemToHsMap)
            byDescription == findHSCodeByDescription(body.itemDescription,
                                                     embeddingsDatabase.hsCodesData)
        IN  /\ Truthy(body.hsCode) =>
                  response = decisionResponse(body.hsCode, embeddingsDatabase, request.oracle)
            /\ (/\ ~Truthy(body.hsCode)
                /\ Truthy(body.itemName) /\ Truthy(body.itemDescription)
                /\ embeddingsDatabase.itemToHsMap # absent
                /\ embeddingsDatabase.hsCodesData # absent) =>
                  IF Unresolved
                  THEN ~Truthy(byName) /\ ~Truthy(byDescription)
                  ELSE \E code \in {byName, byDescription} :
                          /\ Truthy(code)
                          /\ response = decisionResponse(code, embeddingsDatabase,
                                                         request.oracle)
            /\ (~Truthy(body.hsCode) /\ ~Truthy(body.itemName)
                   /\ ~Truthy(body.itemDescription)) =>
                  response = missingFields

(* C7: the same request on the same store answered once with the oracle    *)
(* succeeding and once with it failing gets the same HTTP status and the   *)
(* same status, allowed, hsCode and policy; an oracle failure never turns  *)
(* the request into a failed one.                                          *)
C7_OracleIndependent ==
    Checked =>
        /\ response.http = twin.http
        /\ response.status = twin.status
        /\ response.allowed = twin.allowed
        /\ response.hsCode = twin.hsCode
        /\ response.policy = twin.policy
        /\ (request.oracle = OracleError /\ twin.http = 200) => response.http = 200

C7_Witness ==
    /\ Checked
    /\ request.oracle = OracleError
    /\ response.http = 200
    /\ response.allowed = FALSE
    /\ response.policy = "Restricted"
    /\ response.reason # twin.reason

-----------------------------------------------------------------------------
(* Claims about upload-rules-pdf *)

(* The step in which request r leaves the await of Promise.all: the merge  *)
(* and the writes, ending in the await of pool.terminate or in the catch   *)
MergeStep(r) ==
    /\ ingest[r].pc = "embedding"
    /\ \/ ingest'[r].pc = "terminating"
       \/ request' = [op |-> "upload", file |-> ingest[r].file]

Persists(r) ==
    MergeStep(r) /\ (ingest'[r].pc = "terminating" \/ fileEmbeddings' # fileEmbeddings)

PersistedChunks(file) ==
    IF file = absent THEN <<>> ELSE file[1].chunks

Succeeded(results) ==
    {i \in 1..Len(results) : results[i].state = "chunk"}

(* The k-th task, in task order, whose embedding succeeded *)
NthSucceeded(results, k) ==
    CHOOSE i \in Succeeded(results) :
        Cardinality({j \in Succeeded(results) : j <= i}) = k

(* The chunks a step appended to a chunk list of length n *)
Added(chunks, n) ==
    SubSeq(chunks, n + 1, Len(chunks))

(* C11: within one ingestion the embedding oracle is invoked exactly once  *)
(* per chunk whatever the completion order and whichever tasks fail; the   *)
(* merge happens only when every task has settled; the chunks added to the *)
(* store are exactly the chunks whose embedding succeeded, in chunk order, *)
(* so a failed chunk is absent and keeps no other chunk out.               *)
C11_EmbeddingFanOut ==
    [][\A r \in Requests :
          LET chunks == chunkText(ingest[r].pdfText, chunkSize)
              results == ingest[r].results
              loaded == Len(existingChunks(ingest[r].existingEmbeddingsData))
              added == Added(PersistedChunks(fileEmbeddings'), loaded)
          IN  /\ (ingest[r].pc = "parsing" /\ ingest'[r].pc = "embedding") =>
                    /\ Len(ingest'[r].results) = Len(chunks)
                    /\ \A i \in 1..Len(chunks) :
                          /\ ingest'[r].results[i].state = "pending"
                          /\ ingest'[r].results[i].content = chunks[i]
                          /\ ingest'[r].results[i].execs = 1
              /\ (ingest[r].pc = "embedding" /\ ingest'[r].pc \in {"embedding", "terminating"}) =>
                    /\ Len(ingest'[r].results) = Len(results)
                    /\ \A i \in 1..Len(results) :
                          /\ ingest'[r].results[i].execs = 1
                          /\ results[i].state # "pending" => ingest'[r].results[i] = results[i]
              /\ MergeStep(r) => \A i \in 1..Len(results) : results[i].state # "pending"
              /\ Persists(r) =>
                    /\ Len(PersistedChunks(fileEmbeddings')) = loaded + Cardinality(Succeeded(results))
                    /\ \A k \in 1..Len(added) :
                          /\ added[k].content = chunks[NthSucceeded(results, k)]
                          /\ added[k].embedding = results[NthSucceeded(results, k)].embedding
              /\ ingest'[r].pc = "terminating" /\ ingest[r].pc = "embedding" =>
                    embeddingsDatabase'.chunks = Some(PersistedChunks(fileEmbeddings'))
      ]_vars

(* An ingestion of a two-chunk document whose first embedding failed has   *)
(* stored its second chunk.                                                *)
C11_Witness ==
    \E r \in Requests :
        /\ ingest[r].pc = "terminating"
        /\ Len(ingest[r].results) = 2
        /\ ingest[r].results[1].state = "null"
        /\ ingest[r].results[2].state = "chunk"
        /\ embeddingsDatabase.chunks # absent
        /\ Len(embeddingsDatabase.chunks[1]) >= 1
        /\ embeddingsDatabase.chunks[1][Len(embeddingsDatabase.chunks[1])].content
               = ingest[r].results[2].content

IsPrefix(a, b) ==
    Len(a) <= Len(b) /\ SubSeq(b, 1, Len(a)) = a

(* No other ingestion has persisted anything between the load of request r *)
(* and now: what r loaded is what the two files hold.                      *)
LoadedIsCurrent(r) ==
    /\ ingest[r].existingEmbeddingsData = fileEmbeddings
    /\ ingest[r].existingItemToHsMap = OrEmpty(fileItemToHs)

(* C12: the persisted chunk list changes only in the merge step of an      *)
(* ingestion; for an ingestion that no other ingestion overlaps, the list  *)
(* persisted before is a prefix of the list persisted after, chunk for     *)
(* chunk, and the list is unchanged when every embedding failed.           *)
C12_AppendOnly ==
    [][/\ (\A r \in Requests : ~MergeStep(r)) => fileEmbeddings' = fileEmbeddings
       /\ \A r \in Requests :
             (MergeStep(r) /\ LoadedIsCurrent(r)) =>
                /\ IsPrefix(PersistedChunks(fileEmbeddings), PersistedChunks(fileEmbeddings'))
                /\ Succeeded(ingest[r].results) = {} =>
                      PersistedChunks(fileEmbeddings') = PersistedChunks(fileEmbeddings)
      ]_vars

(* A second ingestion has appended a chunk after the chunk of the first *)
C12_Witness ==
    \E r \in Requests :
        /\ ingest[r].pc = "terminating"
        /\ existingChunks(ingest[r].existingEmbeddingsData) # <<>>
        /\ Succeeded(ingest[r].results) # {}
        /\ PersistedChunks(fileEmbeddings) =
              existingChunks(ingest[r].existingEmbeddingsData)
                 \o successfulChunks(ingest[r].results)

KeySet(o) ==
    {o[i][1] : i \in 1..Len(o)}

(* Table t is table s overwritten by table d: the keys of both, d's value  *)
(* for every key of d, s's value for every other key, no key twice.        *)
MergedFrom(s, d, t) ==
    /\ KeySet(t) = KeySet(s) \cup KeySet(d)
    /\ Len(t) = Cardinality(KeySet(t))
    /\ \A k \in KeySet(d) : ObjGet(t, k) = ObjGet(d, k)
    /\ \A k \in KeySet(s) \ KeySet(d) : ObjGet(t, k) = ObjGet(s, k)

Completes(r) ==
    ingest[r].pc = "embedding" /\ ingest'[r].pc = "terminating"

(* C13: when an ingestion of document D onto the persisted store S         *)
(* completes, the code table and the phrase index, on disk and in memory,  *)
(* are S overwritten by what was extracted from D; if S already had every  *)
(* code of D (D was ingested before) the code table keeps its key set and  *)
(* size, and the chunk list grows by the number of successful embeddings.  *)
C13_TableMerge ==
    [][\A r \in Requests :
          (Completes(r) /\ LoadedIsCurrent(r)) =>
             LET D == extractHSCodes(ingest[r].pdfText)
                 table == existingHsCodesData(fileEmbeddings)
                 index == OrEmpty(fileItemToHs)
                 newTable == existingHsCodesData(fileEmbeddings')
                 newIndex == OrEmpty(fileItemToHs')
             IN  /\ MergedFrom(table, D.hsCodesData, newTable)
                 /\ MergedFrom(index, D.itemToHsMap, newIndex)
                 /\ embeddingsDatabase'.hsCodesData = Some(newTable)
                 /\ embeddingsDatabase'.itemToHsMap = Some(newIndex)
                 /\ KeySet(D.hsCodesData) \subseteq KeySet(table) =>
                       /\ KeySet(newTable) = KeySet(table)
                       /\ Len(newTable) = Len(table)
                 /\ Len(PersistedChunks(fileEmbeddings')) =
                       Len(PersistedChunks(fileEmbeddings))
                          + Cardinality(Succeeded(ingest[r].results))
      ]_vars

(* The second document has been ingested onto the first: code 12345678 and *)
(* phrase "tea" now have the second document's values, code 12340000 keeps *)
(* the first document's entry.                                             *)
C13_Witness ==
    \E r \in Requests :
        /\ ingest[r].pc = "terminating"
        /\ ingest[r].pdfText = "12345678 Tea Prohibited"
        /\ existingHsCodesData(ingest[r].existingEmbeddingsData) =
              << <<"12340000", [description |-> "Tea", policy |-> "Restricted"]>>,
                 <<"12345678", [description |-> "Shirts", policy |-> "Free"]>> >>
        /\ ingest[r].existingItemToHsMap =
              << <<"shirts", "12345678">>, <<"tea", "12340000">> >>
        /\ embeddingsDatabase.hsCodesData =
              Some(<< <<"12340000", [description |-> "Tea", policy |-> "Restricted"]>>,
                      <<"12345678", [description |-> "Tea", policy |-> "Prohibited"]>> >>)
        /\ embeddingsDatabase.itemToHsMap =
              Some(<< <<"shirts", "12345678">>, <<"tea", "12345678">> >>)
        /\ fileEmbeddings # absent
        /\ fileEmbeddings[1].hsCodesData = embeddingsDatabase.hsCodesData[1]
        /\ fileItemToHs = embeddingsDatabase.itemToHsMap

(* C14: once an ingestion has succeeded in this process (the phrase index  *)
(* is in memory), in every state between handler steps the in-memory chunk *)
(* list, code table and phrase index are the contents of the snapshot file *)
(* and of the phrase-index file.                                           *)
C14_MemoryDiskLockstep ==
    embeddingsDatabase.itemToHsMap # absent =>
        /\ fileEmbeddings # absent
        /\ embeddingsDatabase.chunks = Some(fileEmbeddings[1].chunks)
        /\ embeddingsDatabase.hsCodesData = Some(fileEmbeddings[1].hsCodesData)
        /\ embeddingsDatabase.itemToHsMap = fileItemToHs

(* C22: when an ingestion completes after another ingestion has written   *)
(* since it loaded the two files (the two overlap), the snapshot file and  *)
(* the phrase-index file hold exactly what it loaded merged with its own   *)
(* chunks and codes, nothing of the other's writes, and the in-memory      *)
(* store equals the files; the files change only in the merge step of an   *)
(* ingestion, and a write of the chunk list is always the whole list of    *)
(* one ingestion: what that ingestion loaded followed by its own chunks.   *)
C22_LastWriterWins ==
    [][/\ (\A r \in Requests : ~MergeStep(r)) =>
             (fileEmbeddings' = fileEmbeddings /\ fileItemToHs' = fileItemToHs)
       /\ \A r \in Requests :
             LET loaded == ingest[r].existingEmbeddingsData
                 results == ingest[r].results
                 D == extractHSCodes(ingest[r].pdfText)
                 written == PersistedChunks(fileEmbeddings')
                 added == Added(written, Len(existingChunks(loaded)))
                 whole == /\ IsPrefix(existingChunks(loaded), written)
                          /\ Len(added) = Cardinality(Succeeded(results))
                          /\ \A k \in 1..Len(added) :
                                added[k].content = results[NthSucceeded(results, k)].content
             IN  /\ (MergeStep(r) /\ fileEmbeddings' # fileEmbeddings) => whole
                 /\ (Completes(r) /\ ~LoadedIsCurrent(r)) =>
                       /\ fileEmbeddings' # absent /\ fileItemToHs' # absent
                       /\ whole
                       /\ MergedFrom(existingHsCodesData(loaded), D.hsCodesData,
                                     fileEmbeddings'[1].hsCodesData)
                       /\ MergedFrom(ingest[r].existingItemToHsMap, D.itemToHsMap,
                                     fileItemToHs'[1])
                       /\ embeddingsDatabase' =
                             Db(Some(written), Some(fileEmbeddings'[1].hsCodesData),
                                fileItemToHs')
      ]_vars

(* Two ingestions loaded the empty store, the one of the two-row document  *)
(* wrote first and the one of the one-row document wrote last: the files   *)
(* and the memory hold the one-row document alone.                         *)
C22_Witness ==
    \E r \in Requests, q \in Requests :
        /\ r # q
        /\ ingest[r].pc = "terminating" /\ ingest[q].pc = "terminating"
        /\ ingest[r].existingEmbeddingsData = absent
        /\ ingest[q].existingEmbeddingsData = absent
        /\ ingest[r].pdfText = "12345678 Tea Prohibited"
        /\ ingest[q].pdfText = "12345678 Shirts Free\n\n12340000 Tea Restricted"
        /\ Succeeded(ingest[q].results) # {}
        /\ Succeeded(ingest[r].results) # {}
        /\ fileEmbeddings # absent
        /\ fileEmbeddings[1].hsCodesData =
              << <<"12345678", [description |-> "Tea", policy |-> "Prohibited"]>> >>
        /\ fileEmbeddings[1].chunks = successfulChunks(ingest[r].results)
        /\ fileItemToHs = Some(<< <<"tea", "12345678">> >>)
        /\ embeddingsDatabase =
              Db(Some(fileEmbeddings[1].chunks), Some(fileEmbeddings[1].hsCodesData),
                 fileItemToHs)

(* The memory holds what the two files hold, both written by ingestions *)
StoreOnDisk ==
    /\ fileEmbeddings # absent
    /\ fileItemToHs # absent
    /\ embeddingsDatabase = Db(Some(fileEmbeddings[1].chunks),
                               Some(fileEmbeddings[1].hsCodesData), fileItemToHs)

(* C23: a restart of the process on the two files left by successful       *)
(* ingestions leaves the phrase index in memory equal to the phrase-index  *)
(* file, and every check-export-compliance request (by hsCode, itemName or *)
(* itemDescription, oracle succeeding or failing) gets the response it     *)
(* would have got just before the restart.                                 *)
C23_RestartEquivalence ==
    [][(Restart /\ StoreOnDisk) =>
          /\ embeddingsDatabase'.itemToHsMap = fileItemToHs'
          /\ \A hsCode \in HsCodeInputs, itemName \in ItemNameInputs,
                itemDescription \in ItemDescriptionInputs, oracle \in OracleOutcomes :
                LET body == [hsCode |-> hsCode, itemName |-> itemName,
                             itemDescription |-> itemDescription]
                IN  checkExportCompliance(body, embeddingsDatabase', oracle) =
                       checkExportCompliance(body, embeddingsDatabase, oracle)
      ]_vars

(* The step that answers an upload request without a file, or one whose   *)
(* first file is not a PDF                                                 *)
AnswersNoFile ==
    request.op = "none" /\ request'.op = "upload" /\ request'.file = 0
        /\ request'.mimetype = undefined

AnswersOtherFile ==
    request.op = "none" /\ request'.op = "upload" /\ request'.file = 0
        /\ request'.mimetype # undefined

(* C27: an upload request with no file is answered 400, status false; one  *)
(* whose first file is not a PDF is answered 200, status true; neither     *)
(* changes the snapshot file, the phrase-index file or the chunk list, the *)
(* code table and the phrase index in memory, and neither starts an        *)
(* ingestion: no extraction, no embedding task.                            *)
C27_SkippedUploads ==
    [][/\ AnswersNoFile => response' = UploadResponse(400, FALSE)
       /\ AnswersOtherFile => response' = UploadResponse(200, TRUE)
       /\ (AnswersNoFile \/ AnswersOtherFile) =>
             /\ fileEmbeddings' = fileEmbeddings
             /\ fileItemToHs' = fileItemToHs
             /\ embeddingsDatabase' = embeddingsDatabase
             /\ ingest' = ingest
             /\ started' = started
      ]_vars

(* A text file was uploaded to a service whose store holds an ingested     *)
(* document: answered with success, the store as it was.                   *)
C27_Witness ==
    /\ request.op = "upload"
    /\ request.file = 0
    /\ request.mimetype = "text/plain"
    /\ response = UploadResponse(200, TRUE)
    /\ embeddingsDatabase.chunks # absent
    /\ embeddingsDatabase.chunks # Some(<<>>)
    /\ fileEmbeddings # absent
    /\ embeddingsDatabase.chunks = Some(fileEmbeddings[1].chunks)
    /\ embeddingsDatabase.itemToHsMap = fileItemToHs
    /\ fileItemToHs # absent

(* The step in which the ingestion of request r ends in the catch block *)
Fails(r) ==
    /\ ingest[r].pc \in {"parsing", "embedding"}
    /\ ingest'[r].pc = "idle"
    /\ request' = [op |-> "upload", file |-> ingest[r].file]

(* A step of request r after which its ingestion is still under way *)
Proceeds(r) ==
    /\ ingest'[r] # ingest[r]
    /\ ingest'[r].pc \in {"parsing", "embedding"}

(* C17: an ingestion that fails (text extraction throws, an existing file  *)
(* cannot be read, a file write fails) is answered with the failed         *)
(* ingestion response, its temporary file is gone afterwards, and neither  *)
(* the failing step nor any earlier step of the request changed the chunk  *)
(* list, code table or phrase index in memory.                             *)
C17_FailedIngestion ==
    [][\A r \in Requests :
          /\ Fails(r) =>
                /\ response' = UploadResponse(500, FALSE)
                /\ ingest[r].file \notin uploads'
                /\ embeddingsDatabase' = embeddingsDatabase
          /\ Proceeds(r) => embeddingsDatabase' = embeddingsDatabase
      ]_vars

(* After a successful ingestion a later one failed at the second file      *)
(* write: the snapshot file is ahead of the store in memory.               *)
C17_Witness ==
    /\ request.op = "upload"
    /\ request.file = 2
    /\ response = UploadResponse(500, FALSE)
    /\ 2 \notin uploads
    /\ embeddingsDatabase.chunks # absent
    /\ fileEmbeddings # absent
    /\ embeddingsDatabase.chunks # Some(fileEmbeddings[1].chunks)

StrictlyIncreasingIds(chunks) ==
    \A i \in 1..Len(chunks) : \A j \in (i + 1)..Len(chunks) : chunks[i].id < chunks[j].id

(* C19: whatever embeddings failed in whatever ingestions, the ids of the  *)
(* stored chunks are strictly increasing in storage order, in the snapshot *)
(* file and in memory; so a chunk of a later ingestion has an id above     *)
(* every id stored before it.                                              *)
C19_ChunkIdsIncrease ==
    /\ StrictlyIncreasingIds(PersistedChunks(fileEmbeddings))
    /\ StrictlyIncreasingIds(OrEmpty(embeddingsDatabase.chunks))

-----------------------------------------------------------------------------
(* extractHSCodes on texts of up to MaxLines lines.  A line is a row of a  *)
(* schedule (code, description, policy, two blanks between the fields, so  *)
(* an empty description leaves only white space between code and policy),  *)
(* or a line without a policy.                                             *)

RowCodes ==
    {"85171200", "12345678"}

RowDescriptions ==
    {"Telephone sets", "Tea, Rice/oil", "Tea", ""}

RowPolicies ==
    {"Free", "NOT permitted"}

Rows ==
    [hsCode : RowCodes, description : RowDescriptions, policy : RowPolicies]

OtherLines ==
    {[other |-> "85171200  Telephone sets"]}

IsRow(line) ==
    "hsCode" \in DOMAIN line

LineText(line) ==
    IF IsRow(line) THEN line.hsCode \o "  " \o line.description \o "  " \o line.policy
    ELSE line.other

RECURSIVE LinesUpTo(_)
LinesUpTo(n) ==
    IF n = 0 THEN {<<>>}
    ELSE LET prev == LinesUpTo(n - 1)
         IN  prev \cup {Append(ls, l) : ls \in prev, l \in Rows \cup OtherLines}

RECURSIVE TextOf(_)
TextOf(lines) ==
    IF lines = <<>> THEN ""
    ELSE IF Len(lines) = 1 THEN LineText(lines[1])
    ELSE LineText(lines[1]) \o "\n" \o TextOf(Tail(lines))

ExtractTexts ==
    {TextOf(lines) : lines \in LinesUpTo(MaxLines)}

InitExtract ==
    /\ pdfText \in ExtractTexts
    /\ textChunks = <<>>
    /\ embeddingsDatabase = Db(absent, absent, absent)
    /\ fileEmbeddings = absent
    /\ fileItemToHs = absent
    /\ uploads = {}
    /\ ingest = [r \in Requests |-> IdleIngest]
    /\ started = 0
    /\ response = NoResult
    /\ twin = NoResult
    /\ request = NoRequest
    /\ result = NoResult
    /\ shipment = IdleShipment

CallExtractHSCodes ==
    /\ request.op = "none"
    /\ request' = [op |-> "extractHSCodes"]
    /\ result' = [outcome |-> "return",
                  hsCodesData |-> extractHSCodes(pdfText).hsCodesData,
                  itemToHsMap |-> extractHSCodes(pdfText).itemToHsMap]
    /\ UNCHANGED <<embeddingsDatabase, fileEmbeddings, fileItemToHs, uploads, ingest,
                   started, response, twin, pdfText, textChunks, shipment>>

NextExtract ==
    CallExtractHSCodes

SpecExtract ==
    InitExtract /\ [][NextExtract]_vars

-----------------------------------------------------------------------------
(* Claims about extractHSCodes *)

Extracted ==
    request.op = "extractHSCodes"

AllDigits(k) ==
    \A i \in 1..Len(k) : IsDigit(Ch(k, i))

IsPolicyLiteral(policy) ==
    \E i \in 1..Len(policyLiterals) : toLowerCase(policy) = toLowerCase(policyLiterals[i])

(* C15: every entry of the code table has a key of exactly 8 digits, a     *)
(* non-empty description and a policy that is one of the four literals in  *)
(* any letter case, also when only white space separates code and policy.  *)
C15_HSCodeEntryInvariant ==
    Extracted =>
        \A i \in 1..Len(result.hsCodesData) :
            LET hsCode == result.hsCodesData[i][1]
                entry == result.hsCodesData[i][2]
            IN  /\ Len(hsCode) = 8 /\ AllDigits(hsCode)
                /\ entry.description # ""
                /\ IsPolicyLiteral(entry.policy)

(* The lines a text was written from *)
ReadLines(text) ==
    IF text = "" THEN <<>>
    ELSE LET parts == split(text, "\n")
         IN  [i \in 1..Len(parts) |->
                CHOOSE l \in Rows \cup OtherLines : LineText(l) = parts[i]]

(* The rows among the lines, in reading order: the matches of the pattern *)
RowsOf(lines) ==
    SelectSeq(lines, IsRow)

(* The sub-phrases of a description: its maximal runs without ',', ';' and *)
(* '/', trimmed and lower-cased                                            *)
IsSeparator(c) ==
    c \in {",", ";", "/"}

SubPhrases(description) ==
    LET n == Len(description)
        sepOrEnd(i) == i = 0 \/ i = n + 1 \/ IsSeparator(Ch(description, i))
    IN  {toLowerCase(trim(SubSeq(description, a, b - 1))) :
            <<a, b>> \in {w \in (1..(n + 1)) \X (1..(n + 1)) :
                            /\ w[1] <= w[2]
                            /\ sepOrEnd(w[1] - 1) /\ sepOrEnd(w[2])
                            /\ \A i \in w[1]..(w[2] - 1) : ~IsSeparator(Ch(description, i))}}

(* The phrases a row puts into the index: its whole description lower-cased *)
(* and its sub-phrases longer than 3 characters                            *)
PhrasesOf(row) ==
    {toLowerCase(row.description)} \cup {p \in SubPhrases(row.description) : Len(p) > 3}

LastRow(rows, hits) ==
    rows[CHOOSE i \in hits : \A j \in hits : j <= i]

(* The tables as sets of key-value pairs *)
Pairs(o) ==
    {<<o[i][1], o[i][2]>> : i \in 1..Len(o)}

ExpectedTable(rows) ==
    {<<c, [description |-> LastRow(rows, {i \in 1..Len(rows) : rows[i].hsCode = c}).description,
           policy |-> LastRow(rows, {i \in 1..Len(rows) : rows[i].hsCode = c}).policy]>> :
        c \in {rows[i].hsCode : i \in 1..Len(rows)}}

ExpectedIndex(rows) ==
    {<<p, LastRow(rows, {i \in 1..Len(rows) : p \in PhrasesOf(rows[i])}).hsCode>> :
        p \in UNION {PhrasesOf(rows[i]) : i \in 1..Len(rows)}}

(* C16: for a text whose matches are, left to right, the rows r1..rn, the  *)
(* code table holds for each code the description and the policy (as       *)
(* written) of the last row with that code, the phrase index maps the      *)
(* lower-cased description of each row and each of its sub-phrases longer  *)
(* than 3 characters to the code of the last row having that phrase, and   *)
(* nothing else; no key occurs twice; a text without a match gives two     *)
(* empty tables.                                                           *)
C16_ExtractHSCodes ==
    Extracted =>
        LET lines == ReadLines(pdfText)
        IN      /\ TextOf(lines) = pdfText
                /\ result.outcome = "return"
                /\ Pairs(result.hsCodesData) = ExpectedTable(RowsOf(lines))
                /\ Pairs(result.itemToHsMap) = ExpectedIndex(RowsOf(lines))
                /\ Len(result.hsCodesData) = Cardinality(Pairs(result.hsCodesData))
                /\ Len(result.itemToHsMap) = Cardinality(Pairs(result.itemToHsMap))
                /\ RowsOf(lines) = <<>> =>
                      result.hsCodesData = <<>> /\ result.itemToHsMap = <<>>

C16_Witness ==
    /\ Extracted
    /\ pdfText = "85171200  Telephone sets  Free"
    /\ result.hsCodesData =
          << <<"85171200", [description |-> "Telephone sets", policy |-> "Free"]>> >>
    /\ result.itemToHsMap = << <<"telephone sets", "85171200">> >>

-----------------------------------------------------------------------------
(* findRelevantContent on stores of up to MaxChunks chunks.  The vectors   *)
(* are chosen so that two similarities that are equal as real numbers come *)
(* from the same three sums, hence are equal as computed.                  *)

StoredVectors ==
    {<<1, 0>>, <<1, 1>>, <<>>}

QueryVectors ==
    {<<1, 0>>, <<0, 1>>}

Contents ==
    <<"a", "b", "c", "d", "e", "f", "g">>

RECURSIVE ChunkListsUpTo(_)
ChunkListsUpTo(n) ==
    IF n = 0 THEN {<<>>}
    ELSE LET prev == ChunkListsUpTo(n - 1)
         IN  prev \cup {Append(cs, [id |-> Len(cs), content |-> Contents[Len(cs) + 1],
                                    embedding |-> v]) :
                          cs \in {c \in prev : Len(c) = n - 1}, v \in StoredVectors}

InitRank ==
    /\ embeddingsDatabase \in {Db(Some(cs), absent, absent) : cs \in ChunkListsUpTo(MaxChunks)}
    /\ Quiet

(* The outcomes of embeddingModel.embedContent: a vector, or a failure *)
QueryEmbedResults ==
    {[ok |-> TRUE, values |-> v] : v \in QueryVectors} \cup {[ok |-> FALSE, values |-> <<>>]}

CallFindRelevantContent ==
    \E queryEmbedResult \in QueryEmbedResults :
        /\ request.op = "none"
        /\ request' = [op |-> "findRelevantContent", queryEmbedResult |-> queryEmbedResult]
        /\ result' = findRelevantContent(queryEmbedResult, embeddingsDatabase)
        /\ UNCHANGED <<embeddingsDatabase, fileEmbeddings, fileItemToHs, uploads, ingest,
                       started, response, twin, pdfText, textChunks, shipment>>

NextRank ==
    CallFindRelevantContent

SpecRank ==
    InitRank /\ [][NextRank]_vars

-----------------------------------------------------------------------------
(* Claims about findRelevantContent *)

Ranked ==
    request.op = "findRelevantContent" /\ request.queryEmbedResult.ok

StoredChunks ==
    embeddingsDatabase.chunks[1]

SimilarityOf(i) ==
    cosineSimilarity(request.queryEmbedResult.values, StoredChunks[i].embedding)

(* Chunk i is ranked before chunk j: a defined similarity before an        *)
(* undefined one, a higher similarity before a lower one, storage order    *)
(* among equals                                                            *)
RankedBefore(i, j) ==
    LET s == SimilarityOf(i)
        t == SimilarityOf(j)
    IN  IF s.nan THEN t.nan /\ i < j
        ELSE IF t.nan THEN TRUE
        ELSE similarityLess(t, s) \/ (~similarityLess(s, t) /\ i < j)

(* The chunk at place k of the ranking *)
Placed(k) ==
    CHOOSE i \in 1..Len(StoredChunks) :
        Cardinality({j \in 1..Len(StoredChunks) : RankedBefore(j, i)}) = k - 1

(* C18: the result is the contents of the first 5 chunks (all of them when *)
(* fewer are stored) of the ranking by descending similarity, equal scores *)
(* in storage order, chunks of undefined similarity after all others.      *)
C18_Ranking ==
    Ranked =>
        /\ result.outcome = "return"
        /\ result.content =
              join([k \in 1..Min(5, Len(StoredChunks)) |-> StoredChunks[Placed(k)].content],
                   "\n\n")


-----------------------------------------------------------------------------
(* POST /api/find-by-description.  A property the handler does not set is  *)
(* absent from the response: status is absent, <<TRUE>> or <<FALSE>>.      *)

FindResponse(http, status, hsCode, note, error) ==
    [http |-> http, status |-> status, hsCode |-> hsCode, note |-> note, error |-> error]

findByDescription(body, db) ==
    IF ~Truthy(body.description)
    THEN FindResponse(400, Some(FALSE), undefined, undefined,
                      "Missing required field: description")
    ELSE LET normalizedDescription == trim(toLowerCase(body.description))
             hsCodesData == OrEmpty(db.hsCodesData)
             stored(hsCode) == toLowerCase(ObjGet(hsCodesData, hsCode).description)
             exact(hsCode) == stored(hsCode) = normalizedDescription
             partial(hsCode) == \/ includes(stored(hsCode), normalizedDescription)
                                \/ includes(normalizedDescription, stored(hsCode))
             matchingHsCode ==
                 find(ObjKeys(hsCodesData),
                      [i \in 1..Len(hsCodesData) |-> exact(hsCodesData[i][1])])
             partialMatchHsCode ==
                 find(ObjKeys(hsCodesData),
                      [i \in 1..Len(hsCodesData) |-> partial(hsCodesData[i][1])])
         IN  IF Truthy(matchingHsCode)
             THEN FindResponse(200, absent, matchingHsCode, undefined, undefined)
             ELSE IF Truthy(partialMatchHsCode)
             THEN FindResponse(200, Some(TRUE), partialMatchHsCode,
                               "Found via partial match", undefined)
             ELSE FindResponse(200, Some(FALSE), undefined, undefined,
                               "No matching HS code found for this description")

-----------------------------------------------------------------------------
(* POST /api/check-shipment-compliance.  The handler keeps report and      *)
(* overallStatus and, for the item under way, itemReport and hsCode; the   *)
(* fields of the item and of the shipment it only copies into the report   *)
(* (manufacturer, material, weight, organisation, addresses, date) are     *)
(* left out.                                                               *)

Thrown ==
    [outcome |-> "throw"]

Returned(data) ==
    [outcome |-> "return", data |-> data]

NotCalled ==
    [outcome |-> "none"]

(* axios.post: the promise rejects on a status outside 2xx *)
axiosPost(res) ==
    IF res.http \in 200..299 THEN Returned(res) ELSE Thrown

(* data.name, undefined when the response has no such property *)
Prop(data, name) ==
    IF name \in DOMAIN data THEN data[name] ELSE undefined

newItemReport(item) ==
    [itemName |-> item.itemName, hsCode |-> undefined, hsCodeNote |-> undefined,
     status |-> absent, exportStatus |-> absent, importStatus |-> absent,
     reason |-> undefined, exportReason |-> undefined, importReason |-> undefined,
     exportPolicy |-> undefined, exportDescription |-> undefined,
     exportConditions |-> undefined, message |-> undefined]

(* The locals after a step of the loop body; continue: the itemReport has  *)
(* been pushed and the loop goes to the next item                          *)
Iteration(itemReport, overallStatus, hsCode, continue) ==
    [itemReport |-> itemReport, overallStatus |-> overallStatus, hsCode |-> hsCode,
     continue |-> continue]

(* Step 1: get or validate the HS code *)
resolveStep(item, overallStatus, hsResponse) ==
    LET itemReport == newItemReport(item)
    IN  IF Truthy(item.hsCode)
        THEN Iteration([itemReport EXCEPT !.hsCode = item.hsCode], overallStatus,
                       item.hsCode, FALSE)
        ELSE IF hsResponse.outcome = "throw"
        THEN Iteration([itemReport EXCEPT !.status = Some(FALSE),
                                          !.exportStatus = Some(FALSE),
                                          !.reason = "Error determining HS code"],
                       FALSE, undefined, TRUE)
        ELSE IF hsResponse.data.status = Some(TRUE) /\ Truthy(hsResponse.data.hsCode)
        THEN Iteration([itemReport EXCEPT
                           !.hsCode = hsResponse.data.hsCode,
                           !.hsCodeNote = IF Truthy(hsResponse.data.note)
                                          THEN hsResponse.data.note
                                          ELSE "Generated from item name"],
                       overallStatus, hsResponse.data.hsCode, FALSE)
        ELSE Iteration([itemReport EXCEPT
                           !.status = Some(FALSE),
                           !.exportStatus = Some(FALSE),
                           !.reason = IF Truthy(Prop(hsResponse.data, "reason"))
                                      THEN Prop(hsResponse.data, "reason")
                                      ELSE "HS Code could not be determined"],
                       FALSE, undefined, TRUE)

(* Step 2: check export compliance *)
exportStep(it, exportResponse) ==
    IF it.continue THEN it
    ELSE IF exportResponse.outcome = "throw"
    THEN Iteration([it.itemReport EXCEPT !.status = Some(FALSE),
                                         !.exportStatus = Some(FALSE),
                                         !.exportReason = "Error checking export compliance"],
                   FALSE, it.hsCode, TRUE)
    ELSE LET data == exportResponse.data
         IN  IF ~data.allowed
             THEN Iteration([it.itemReport EXCEPT
                                !.exportStatus = Some(data.allowed),
                                !.status = Some(FALSE),
                                !.exportReason = IF Truthy(data.reason) THEN data.reason
                                                 ELSE "Not eligible for export from India"],
                            FALSE, it.hsCode, TRUE)
             ELSE Iteration([it.itemReport EXCEPT
                                !.exportStatus = Some(data.allowed),
                                !.exportPolicy = data.policy,
                                !.exportDescription = data.description,
                                !.exportConditions = "Standard export conditions apply"],
                            it.overallStatus, it.hsCode, FALSE)

(* Step 3: check import compliance, and the end of the loop body *)
importStep_KeepOverall(it, importResponse) ==
    IF it.continue THEN it
    ELSE IF importResponse.outcome = "throw"
    THEN Iteration([it.itemReport EXCEPT !.status = Some(FALSE),
                                         !.importStatus = Some(FALSE),
                                         !.importReason = "Error checking import compliance"],
                   it.overallStatus, it.hsCode, TRUE)
    ELSE LET data == importResponse.data
         IN  IF data.status # Some(TRUE)
             THEN Iteration([it.itemReport EXCEPT
                                !.importStatus = data.status,
                                !.status = Some(FALSE),
                                !.importReason = IF Truthy(Prop(data, "reason"))
                                                 THEN Prop(data, "reason")
                                                 ELSE "Not allowed for import in USA"],
                            it.overallStatus, it.hsCode, TRUE)
             ELSE Iteration([it.itemReport EXCEPT
                                !.importStatus = data.status,
                                !.status = Some(TRUE),
                                !.message = "Eligible for export from India and import into USA"],
                            it.overallStatus, it.hsCode, TRUE)

importStep(it, importResponse) ==
    IF it.continue THEN it
    ELSE IF importResponse.outcome = "throw"
    THEN Iteration([it.itemReport EXCEPT !.status = Some(FALSE),
                                         !.importStatus = Some(FALSE),
                                         !.importReason = "Error checking import compliance"],
                   FALSE, it.hsCode, TRUE)
    ELSE LET data == importResponse.data
         IN  IF data.status # Some(TRUE)
             THEN Iteration([it.itemReport EXCEPT
                                !.importStatus = data.status,
                                !.status = Some(FALSE),
                                !.importReason = IF Truthy(Prop(data, "reason"))
                                                 THEN Prop(data, "reason")
                                                 ELSE "Not allowed for import in USA"],
                            FALSE, it.hsCode, TRUE)
             ELSE Iteration([it.itemReport EXCEPT
                                !.importStatus = data.status,
                                !.status = Some(TRUE),
                                !.message = "Eligible for export from India and import into USA"],
                            it.overallStatus, it.hsCode, TRUE)

(* The first position at or after item i of box b that holds an item; box  *)
(* Len(boxes) + 1 when there is none                                       *)
RECURSIVE nextItem(_, _, _)
nextItem(boxes, b, i) ==
    IF b > Len(boxes) THEN [box |-> b, item |-> 1]
    ELSE IF i <= Len(boxes[b].items) THEN [box |-> b, item |-> i]
    ELSE nextItem(boxes, b + 1, 1)

summary(report) ==
    [totalItems |-> Len(report),
     approvedItems |-> Cardinality({k \in 1..Len(report) : report[k].status = Some(TRUE)}),
     rejectedItems |-> Cardinality({k \in 1..Len(report) : report[k].status # Some(TRUE)})]

ShipmentResponse(overallStatus, report) ==
    [outcome |-> "response", http |-> 200, status |-> overallStatus,
     summary |-> summary(report), report |-> report]

ShipmentError ==
    [outcome |-> "response", http |-> 500, status |-> FALSE,
     error |-> "An error occurred while processing compliance check"]

-----------------------------------------------------------------------------
(* Specification of check-shipment-compliance alone.  The three services   *)
(* the handler posts to are the routers mounted under /india and /usa,     *)
(* each with a store of its own: a call is answered as find-by-description *)
(* or check-export-compliance answers on some code table, or fails.        *)

MaxBoxes ==
    2

MaxItems ==
    2

ShipmentItems ==
    {[itemName |-> "Tea", hsCode |-> undefined],
     [itemName |-> "Te", hsCode |-> undefined],
     [itemName |-> "TEA", hsCode |-> "12345678"]}

RECURSIVE ItemListsUpTo(_)
ItemListsUpTo(n) ==
    IF n = 0 THEN {<<>>}
    ELSE LET prev == ItemListsUpTo(n - 1)
         IN  prev \cup {Append(l, item) : l \in prev, item \in ShipmentItems}

(* At most k boxes holding at most n items in all *)
RECURSIVE BoxListsUpTo(_, _)
BoxListsUpTo(k, n) ==
    IF k = 0 THEN {<<>>}
    ELSE BoxListsUpTo(k - 1, n) \cup
         UNION {{<<[items |-> l]>> \o rest : rest \in BoxListsUpTo(k - 1, n - Len(l))} :
                   l \in ItemListsUpTo(n)}

Shipments ==
    {[boxes |-> boxes] : boxes \in BoxListsUpTo(MaxBoxes, MaxItems)}

ShipmentTables ==
    {<<>>,
     << <<"12345678", HSCodeEntry("Tea", "Free")>> >>,
     << <<"12345678", HSCodeEntry("Tea", "Restricted")>> >>}

FindResponses(body) ==
    {Thrown} \cup
    {axiosPost(findByDescription(body, Db(absent, Some(t), absent))) : t \in ShipmentTables}

ExportResponses(body) ==
    {Thrown} \cup
    {axiosPost(checkExportCompliance(body, Db(absent, Some(t), absent), oracle)) :
        t \in ShipmentTables, oracle \in OracleOutcomes}

InitShipment ==
    /\ embeddingsDatabase = Db(absent, absent, absent)
    /\ Quiet

(* lines 18-22 of index.js: the request arrives *)
ReceiveShipment ==
    \E shipmentData \in Shipments :
        /\ request.op = "none"
        /\ shipment.pc = "idle"
        /\ request' = [op |-> "checkShipmentCompliance", body |-> shipmentData]
        /\ shipment' = [pc |-> "items",
                        box |-> nextItem(shipmentData.boxes, 1, 1).box,
                        item |-> nextItem(shipmentData.boxes, 1, 1).item,
                        report |-> <<>>, overallStatus |-> TRUE,
                        hsResponse |-> NotCalled, exportResponse |-> NotCalled,
                        importResponse |-> NotCalled]
        /\ UNCHANGED <<embeddingsDatabase, fileEmbeddings, fileItemToHs, uploads, ingest,
                       started, response, twin, result, pdfText, textChunks>>

(* lines 24-132 of index.js: one turn of the loop body, with its awaits *)
CheckItem ==
    /\ shipment.pc = "items"
    /\ shipment.box <= Len(request.body.boxes)
    /\ LET boxes == request.body.boxes
           item == boxes[shipment.box].items[shipment.item]
           next == nextItem(boxes, shipment.box, shipment.item + 1)
       IN  \E hsResponse \in FindResponses([description |-> item.itemName]) :
               LET resolved == resolveStep(item, shipment.overallStatus,
                                           IF Truthy(item.hsCode) THEN NotCalled
                                           ELSE hsResponse)
               IN  \E exportResponse \in
                          ExportResponses([hsCode |-> resolved.hsCode,
                                           itemName |-> item.itemName,
                                           itemDescription |-> item.itemName]),
                      importResponse \in FindResponses([description |-> item.itemName]) :
                       LET exported == exportStep(resolved, exportResponse)
                           imported == importStep(exported, importResponse)
                       IN  shipment' =
                              [shipment EXCEPT
                                  !.box = next.box,
                                  !.item = next.item,
                                  !.report = Append(@, imported.itemReport),
                                  !.overallStatus = imported.overallStatus,
                                  !.hsResponse = IF Truthy(item.hsCode) THEN NotCalled
                                                 ELSE hsResponse,
                                  !.exportResponse = IF resolved.continue THEN NotCalled
                                                     ELSE exportResponse,
                                  !.importResponse = IF exported.continue THEN NotCalled
                                                     ELSE importResponse]
    /\ UNCHANGED <<embeddingsDatabase, fileEmbeddings, fileItemToHs, uploads, ingest,
                   started, response, twin, request, result, pdfText, textChunks>>

(* lines 135-158 of index.js, 169-211 of the later revision: the summary   *)
(* and the response; the later revision also saves the report and makes a  *)
(* QR code, and answers 500 when that throws                               *)
Summarize ==
    \E saved \in BOOLEAN :
        /\ shipment.pc = "items"
        /\ shipment.box > Len(request.body.boxes)
        /\ response' = IF saved
                       THEN ShipmentResponse(shipment.overallStatus, shipment.report)
                       ELSE ShipmentError
        /\ shipment' = [shipment EXCEPT !.pc = "done"]
        /\ UNCHANGED <<embeddingsDatabase, fileEmbeddings, fileItemToHs, uploads, ingest,
                       started, twin, request, result, pdfText, textChunks>>

NextShipment ==
    \/ ReceiveShipment
    \/ CheckItem
    \/ Summarize

SpecShipment ==
    InitShipment /\ [][NextShipment]_vars

-----------------------------------------------------------------------------
(* Claims about check-shipment-compliance *)

(* The items of a shipment in box-then-item order *)
RECURSIVE ItemsOf(_)
ItemsOf(boxes) ==
    IF boxes = <<>> THEN <<>> ELSE Head(boxes).items \o ItemsOf(Tail(boxes))

(* The first entries of the report are the first items, one entry each,    *)
(* and every entry has its status set                                      *)
ReportsItems(report, items) ==
    /\ Len(report) <= Len(items)
    /\ \A k \in 1..Len(report) :
          /\ report[k].itemName = items[k].itemName
          /\ report[k].status \in {Some(TRUE), Some(FALSE)}

AllApproved(report) ==
    \A k \in 1..Len(report) : report[k].status = Some(TRUE)

(* C24: whatever the resolve, export and import calls of each item return  *)
(* or throw, the report has exactly one entry per item, in box-then-item   *)
(* order, each with status true or false; totalItems is the number of      *)
(* items and equals approvedItems + rejectedItems; and the overall status  *)
(* is true exactly when every entry has status true.                       *)
C24_ReportAccounting ==
    /\ shipment.pc = "items" =>
          /\ ReportsItems(shipment.report, ItemsOf(request.body.boxes))
          /\ shipment.overallStatus <=> AllApproved(shipment.report)
          /\ shipment.box > Len(request.body.boxes) =>
                Len(shipment.report) = Len(ItemsOf(request.body.boxes))
    /\ (shipment.pc = "done" /\ response.http = 200) =>
          /\ ReportsItems(response.report, ItemsOf(request.body.boxes))
          /\ Len(response.report) = Len(ItemsOf(request.body.boxes))
          /\ response.summary.totalItems = Len(ItemsOf(request.body.boxes))
          /\ response.summary.totalItems =
                response.summary.approvedItems + response.summary.rejectedItems
          /\ response.status <=> AllApproved(response.report)

(* A shipment of two boxes of one item each: the first item approved, the  *)
(* second rejected at the import step.                                     *)
C24_Witness ==
    /\ shipment.pc = "done"
    /\ response.http = 200
    /\ Len(request.body.boxes) = 2
    /\ Len(request.body.boxes[1].items) = 1
    /\ Len(request.body.boxes[2].items) = 1
    /\ Len(response.report) = 2
    /\ response.report[1].itemName = "Te"
    /\ response.report[1].status = Some(TRUE)
    /\ response.report[2].itemName = "TEA"
    /\ response.report[2].status = Some(FALSE)
    /\ response.report[2].importStatus = Some(FALSE)
    /\ response.summary = [totalItems |-> 2, approvedItems |-> 1, rejectedItems |-> 1]
    /\ response.status = FALSE

(* The steps of the latest item that got an answer from the resolver *)
ImportAnswered ==
    /\ shipment.pc = "items"
    /\ shipment.report # <<>>
    /\ shipment.importResponse.outcome = "return"

ResolveAnswered ==
    /\ shipment.pc = "items"
    /\ shipment.report # <<>>
    /\ shipment.hsResponse.outcome = "return"

LatestEntry ==
    shipment.report[Len(shipment.report)]

(* C25: when find-by-description answers the import step with an hsCode,   *)
(* found by exact or by partial match, the item is approved (the step      *)
(* rejects only when no code was found); and when it answers step 1 with   *)
(* an hsCode, the item is not rejected as undeterminable.                  *)
C25_ImportAgreesWithResolver ==
    /\ ImportAnswered =>
          (Truthy(shipment.importResponse.data.hsCode) =>
              LatestEntry.status = Some(TRUE))
    /\ ResolveAnswered =>
          (Truthy(shipment.hsResponse.data.hsCode) =>
              LatestEntry.reason # "HS Code could not be determined")

====
